---- MODULE Spec2Model ----
(***************************************************************************)
(* Logo candidate extraction and ranking (logoExtractor.js and             *)
(* utils/imageHelpers.js): the in-page harvest over the discovery          *)
(* channels, scoreImage, the rank comparator, the favicon append and       *)
(* findTopLogo.  Text is kept as TLA+ strings; the String methods the code *)
(* uses (includes, startsWith, toLowerCase, split, match) are operators    *)
(* over them.  A null or undefined text field is the empty string: the     *)
(* code only ever tests such fields for truthiness.                        *)
(***************************************************************************)
EXTENDS Integers, Sequences, FiniteSets, TLC

(***************************************************************************)
(* String primitives                                                       *)
(***************************************************************************)
Char(s, i) == SubSeq(s, i, i)

Includes(s, t) == \E i \in 0..(Len(s) - Len(t)) : SubSeq(s, i + 1, i + Len(t)) = t

StartsWith(s, t) == Len(t) <= Len(s) /\ SubSeq(s, 1, Len(t)) = t

EndsWith(s, t) == Len(t) <= Len(s) /\ SubSeq(s, Len(s) - Len(t) + 1, Len(s)) = t

\* index of the first occurrence of t in s, 0 when there is none
IndexOf(s, t) ==
  IF Includes(s, t)
  THEN 1 + CHOOSE i \in 0..(Len(s) - Len(t)) :
             /\ SubSeq(s, i + 1, i + Len(t)) = t
             /\ \A j \in 0..(i - 1) : SubSeq(s, j + 1, j + Len(t)) # t
  ELSE 0

\* index of the last occurrence of t in s, 0 when there is none
LastIndexOf(s, t) ==
  IF Includes(s, t)
  THEN 1 + CHOOSE i \in 0..(Len(s) - Len(t)) :
             /\ SubSeq(s, i + 1, i + Len(t)) = t
             /\ \A j \in (i + 1)..(Len(s) - Len(t)) : SubSeq(s, j + 1, j + Len(t)) # t
  ELSE 0

\* s.split(t)[0]
BeforeFirst(s, t) == IF Includes(s, t) THEN SubSeq(s, 1, IndexOf(s, t) - 1) ELSE s

\* s.split(t).pop()
AfterLast(s, t) ==
  IF Includes(s, t) THEN SubSeq(s, LastIndexOf(s, t) + Len(t), Len(s)) ELSE s

\* s.replace(t, u) with a string pattern: the first occurrence only
ReplaceFirst(s, t, u) ==
  IF Includes(s, t)
  THEN SubSeq(s, 1, IndexOf(s, t) - 1) \o u \o SubSeq(s, IndexOf(s, t) + Len(t), Len(s))
  ELSE s

UpperChars == <<"A", "B", "C", "D", "E", "F", "G", "H", "I", "J", "K", "L", "M",
                "N", "O", "P", "Q", "R", "S", "T", "U", "V", "W", "X", "Y", "Z">>

LowerChars == <<"a", "b", "c", "d", "e", "f", "g", "h", "i", "j", "k", "l", "m",
                "n", "o", "p", "q", "r", "s", "t", "u", "v", "w", "x", "y", "z">>

DigitChars == {"0", "1", "2", "3", "4", "5", "6", "7", "8", "9"}

HexChars == DigitChars \cup {"a", "b", "c", "d", "e", "f"}

\* \w of a regular expression
WordChars ==
  DigitChars \cup {"_"} \cup {UpperChars[i] : i \in 1..26} \cup {LowerChars[i] : i \in 1..26}

\* [a-z0-9] under the i flag
AlnumChars == WordChars \ {"_"}

LowerChar(c) ==
  IF \E i \in 1..26 : UpperChars[i] = c
  THEN LowerChars[CHOOSE i \in 1..26 : UpperChars[i] = c]
  ELSE c

RECURSIVE LowerFrom(_, _)
LowerFrom(s, i) ==
  IF i > Len(s) THEN "" ELSE LowerChar(Char(s, i)) \o LowerFrom(s, i + 1)

\* String.prototype.toLowerCase (a string without capitals is returned as it is)
toLowerCase(s) ==
  IF \A i \in 1..Len(s) : Char(s, i) \notin {UpperChars[k] : k \in 1..26}
  THEN s
  ELSE LowerFrom(s, 1)

\* /[set]{n,}/ : a run of at least n characters of the set
HasRun(s, set, n) ==
  \E i \in 1..(Len(s) - n + 1) : \A j \in 0..(n - 1) : Char(s, i + j) \in set

\* /\b(w)\b/ : w between two word boundaries
MatchesWord(s, w) ==
  \E i \in 0..(Len(s) - Len(w)) :
    /\ SubSeq(s, i + 1, i + Len(w)) = w
    /\ (i = 0 \/ Char(s, i) \notin WordChars)
    /\ (i + Len(w) = Len(s) \/ Char(s, i + Len(w) + 1) \notin WordChars)

\* /^\d+$/
AllDigits(s) == Len(s) > 0 /\ \A i \in 1..Len(s) : Char(s, i) \in DigitChars

(***************************************************************************)
(* new URL(urlString, baseUrl): the parts the code reads (href, hostname,  *)
(* pathname).  ok = FALSE is the TypeError the constructor throws.         *)
(***************************************************************************)
RECURSIVE SplitOn(_, _)
SplitOn(s, sep) ==
  IF Includes(s, sep)
  THEN <<SubSeq(s, 1, IndexOf(s, sep) - 1)>>
         \o SplitOn(SubSeq(s, IndexOf(s, sep) + Len(sep), Len(s)), sep)
  ELSE <<s>>

RECURSIVE JoinWith(_, _)
JoinWith(segs, sep) ==
  IF Len(segs) = 0 THEN ""
  ELSE IF Len(segs) = 1 THEN segs[1]
  ELSE segs[1] \o sep \o JoinWith(Tail(segs), sep)

RECURSIVE RemoveDotSegments(_, _, _)
RemoveDotSegments(segs, out, i) ==
  IF i > Len(segs) THEN out
  ELSE LET seg    == segs[i]
           last   == (i = Len(segs))
           popped == IF Len(out) = 0 THEN out ELSE SubSeq(out, 1, Len(out) - 1)
       IN  IF seg = "."
           THEN RemoveDotSegments(segs, IF last THEN Append(out, "") ELSE out, i + 1)
           ELSE IF seg = ".."
           THEN RemoveDotSegments(segs, IF last THEN Append(popped, "") ELSE popped, i + 1)
           ELSE RemoveDotSegments(segs, Append(out, seg), i + 1)

\* a path starting with "/", its dot segments resolved
NormalPath(path) ==
  "/" \o JoinWith(RemoveDotSegments(SplitOn(SubSeq(path, 2, Len(path)), "/"), <<>>, 1), "/")

FailedUrl == [ok |-> FALSE, scheme |-> "", hostname |-> "", pathname |-> "",
              search |-> "", hash |-> ""]

\* the part of s from its first "#" on
HashOf(s) == IF Includes(s, "#") THEN SubSeq(s, IndexOf(s, "#"), Len(s)) ELSE ""

\* the part of s from its first "?" up to the "#"
SearchOf(s) ==
  LET noHash == BeforeFirst(s, "#")
  IN  IF Includes(noHash, "?")
      THEN SubSeq(noHash, IndexOf(noHash, "?"), Len(noHash))
      ELSE ""

PathOf(s) == BeforeFirst(BeforeFirst(s, "#"), "?")

ForbiddenHostChars == {" ", "<", ">", "\"", "'", "^", "|", "%"}

\* scheme://hostname followed by the path, query and fragment of tail; a path
\* that does not start with "/" is resolved in the directory dir
Located(scheme, hostname, dir, tail) ==
  [ok |-> TRUE, scheme |-> scheme, hostname |-> hostname,
   pathname |-> NormalPath(IF StartsWith(PathOf(tail), "/") THEN PathOf(tail)
                           ELSE dir \o PathOf(tail)),
   search |-> SearchOf(tail), hash |-> HashOf(tail)]

\* a special-scheme url whose authority has been cut off the front of rest
SpecialUrl(scheme, authority, rest) ==
  IF authority = "" \/ \E i \in 1..Len(authority) : Char(authority, i) \in ForbiddenHostChars
  THEN FailedUrl
  ELSE Located(scheme, toLowerCase(authority), "/",
               SubSeq(rest, Len(authority) + 1, Len(rest)))

\* scheme://authority/path?query#fragment, special scheme (http, https)
ParseSpecial(scheme, rest) == SpecialUrl(scheme, BeforeFirst(PathOf(rest), "/"), rest)

ParseAbsolute(s) ==
  IF StartsWith(s, "https://") \/ StartsWith(s, "http://")
  THEN ParseSpecial(BeforeFirst(s, ":"), SubSeq(s, IndexOf(s, "://") + 3, Len(s)))
  ELSE IF StartsWith(s, "data:")
  THEN [ok |-> TRUE, scheme |-> "data", hostname |-> "",
        pathname |-> PathOf(SubSeq(s, 6, Len(s))),
        search |-> SearchOf(SubSeq(s, 6, Len(s))), hash |-> HashOf(SubSeq(s, 6, Len(s)))]
  ELSE FailedUrl

HasScheme(s) == StartsWith(s, "https:") \/ StartsWith(s, "http:") \/ StartsWith(s, "data:")

\* a reference without scheme, resolved against the parsed base
ParseRelative(s, base) ==
  IF ~base.ok \/ base.scheme = "data" THEN FailedUrl
  ELSE IF StartsWith(s, "//") THEN ParseSpecial(base.scheme, SubSeq(s, 3, Len(s)))
  ELSE IF PathOf(s) = ""
  THEN [base EXCEPT !.search = IF SearchOf(s) = "" THEN base.search ELSE SearchOf(s),
                    !.hash = HashOf(s)]
  ELSE Located(base.scheme, base.hostname,
               SubSeq(base.pathname, 1, LastIndexOf(base.pathname, "/")), s)

\* new URL(urlString, baseUrl): the base is parsed first and the constructor
\* throws on a base that is no url, whatever urlString is
URL(urlString, baseUrl) ==
  IF HasScheme(urlString) /\ ParseAbsolute(baseUrl).ok THEN ParseAbsolute(urlString)
  ELSE ParseRelative(urlString, ParseAbsolute(baseUrl))

\* url.href, or fallback when the constructor threw
HrefOr(u, fallback) ==
  IF ~u.ok THEN fallback
  ELSE IF u.scheme = "data" THEN "data:" \o u.pathname \o u.search \o u.hash
  ELSE u.scheme \o "://" \o u.hostname \o u.pathname \o u.search \o u.hash

\* url.pathname, or fallback when the constructor threw
PathnameOr(u, fallback) == IF u.ok THEN u.pathname ELSE fallback

(***************************************************************************)
(* The in-page helpers of extractAllImagesWithPage                         *)
(***************************************************************************)
getFilename(urlString, baseUrl) ==
  BeforeFirst(AfterLast(PathnameOr(URL(urlString, baseUrl), urlString), "/"), "?")

\* /\.([a-z0-9]+)$/i
getExtension(filename) ==
  IF /\ Includes(filename, ".")
     /\ Len(AfterLast(filename, ".")) > 0
     /\ \A i \in 1..Len(AfterLast(filename, ".")) :
          Char(AfterLast(filename, "."), i) \in AlnumChars
  THEN toLowerCase(AfterLast(filename, "."))
  ELSE ""

\* normalizeUrl without the base handed to the constructor
normalizeWithoutBase(urlString, baseUrl) == HrefOr(ParseAbsolute(urlString), urlString)

normalizeUrl(urlString, baseUrl) == HrefOr(URL(urlString, baseUrl), urlString)

\* hostname.replace(/^www\./, '')
StripWww(host) == IF StartsWith(host, "www.") THEN SubSeq(host, 5, Len(host)) ELSE host

\* '' when the constructor threw
getDomain(urlString, baseUrl) == StripWww(toLowerCase(URL(urlString, baseUrl).hostname))

\* the try { new URL(normalizedUrl, baseUrl).pathname } catch {} of every channel
pathnameOf(normalizedUrl, baseUrl) == PathnameOr(URL(normalizedUrl, baseUrl), "")

commonSubdomains ==
  {"www", "www2", "www3", "invest", "admin", "app", "api", "blog", "mail", "ftp",
   "cdn", "static", "assets", "media", "images", "img"}

\* the label next to the TLD whatever the labels before it are
MainLabelNextToTld(parts) == IF Len(parts) >= 3 THEN parts[Len(parts) - 1] ELSE parts[1]

\* the main part of the list of labels parts
MainLabel(parts) ==
  IF Len(parts) >= 3
  THEN IF toLowerCase(parts[Len(parts) - 2]) \in commonSubdomains THEN parts[Len(parts) - 1]
       ELSE IF Len(parts[Len(parts) - 1]) <= 2 \/ AllDigits(parts[Len(parts) - 1])
       THEN parts[Len(parts) - 2]
       ELSE parts[Len(parts) - 1]
  ELSE parts[1]

getSiteName(domain) == IF domain = "" THEN "" ELSE MainLabel(SplitOn(domain, "."))

thirdPartyServices ==
  {"stripe", "paypal", "visa", "mastercard", "amex", "discover",
   "google", "facebook", "twitter", "linkedin", "instagram", "youtube",
   "microsoft", "apple", "amazon", "aws", "azure", "github", "gitlab",
   "slack", "zoom", "dropbox", "salesforce", "shopify", "woocommerce",
   "wordpress", "drupal", "joomla", "magento", "prestashop"}

(***************************************************************************)
(* scoreImage(imgData), with the siteDomain and siteName of its closure    *)
(* computed from baseUrl.                                                  *)
(***************************************************************************)
Bonus(cond, points) == IF cond THEN points ELSE 0

IsSvgSource(source) == source = "inline-svg" \/ source = "svg-sprite"

\* the chain with the brand test moved before the logo test
ClassIdPointsBrandFirst(text) ==
  IF text = "" THEN 0
  ELSE IF Includes(toLowerCase(text), "brand") \/ Includes(toLowerCase(text), "site-identity")
  THEN 10
  ELSE IF Includes(toLowerCase(text), "logo") THEN 20
  ELSE IF Includes(toLowerCase(text), "header") \/ Includes(toLowerCase(text), "nav") THEN 5
  ELSE 0

\* score of the class / id text (the if - else if chain of each)
ClassIdPoints(text) ==
  LET lower == toLowerCase(text)
  IN  IF text = "" THEN 0
      ELSE IF Includes(lower, "logo") THEN 20
      ELSE IF Includes(lower, "brand") \/ Includes(lower, "site-identity") THEN 10
      ELSE IF Includes(lower, "header") \/ Includes(lower, "nav") THEN 5
      ELSE 0

\* score of the parent's class / id text
ParentPoints(text) ==
  LET lower == toLowerCase(text)
  IN  Bonus(text # "" /\ (\/ Includes(lower, "logo") \/ Includes(lower, "brand")
                          \/ Includes(lower, "header") \/ Includes(lower, "nav")
                          \/ Includes(lower, "site-identity")), 5)

scoreSignals(imgData, siteDomain, siteName, imageDomain) ==
  LET siteNameLower == toLowerCase(siteName)
      urlLower      == toLowerCase(imgData.url)
      filenameLower == toLowerCase(imgData.filename)
      pathLower     == toLowerCase(imgData.pathname)
      altLower      == toLowerCase(imgData.alt)
      hasLogoInFilename == Includes(filenameLower, "logo")
      hasLogoInPath     == Includes(pathLower, "logo")
      siteNameUsable    == siteName # "" /\ Len(siteName) > 2
      hasSiteName ==
        /\ siteNameUsable
        /\ \/ Includes(filenameLower, siteNameLower)
           \/ Includes(urlLower, siteNameLower)
           \/ Includes(pathLower, siteNameLower)
      siteNamePoints ==
        Bonus(hasSiteName, 50)
          + Bonus(hasSiteName /\ StartsWith(filenameLower, siteNameLower), 15)
      hasOtherOrgName ==
        \E w \in {"edc", "dif", "partner", "sponsor", "affiliate", "certified",
                  "certification"} : MatchesWord(filenameLower, w)
      hasStrongLogoIndicators ==
        \/ imgData.alt # "" /\ Includes(altLower, "logo")
        \/ imgData.className # "" /\ Includes(toLowerCase(imgData.className), "logo")
        \/ imgData.id # "" /\ Includes(toLowerCase(imgData.id), "logo")
      foreignLogoPoints ==
        IF ~hasSiteName /\ siteNameUsable /\ hasLogoInFilename
        THEN IF hasOtherOrgName THEN -30
             ELSE IF ~hasStrongLogoIndicators THEN -20
             ELSE -10
        ELSE 0
      Mentions(service) ==
        \/ Includes(filenameLower, service)
        \/ Includes(urlLower, "/" \o service)
        \/ Includes(pathLower, "/" \o service)
      matchingThirdPartyService ==
        \E service \in thirdPartyServices :
          Mentions(service) /\ toLowerCase(service) = siteNameLower
      hasThirdPartyName ==
        \E service \in thirdPartyServices :
          Mentions(service) /\ toLowerCase(service) # siteNameLower
      thirdPartyPoints == Bonus(hasThirdPartyName /\ ~matchingThirdPartyService, -40)
      partnerPathPoints ==
        Bonus(\/ \E seg \in {"/partners/", "/partner/", "/ads/", "/ad/", "/sponsors/",
                             "/sponsor/", "/advertisements/", "/advertisement/"} :
                   Includes(urlLower, seg)
              \/ \E seg \in {"/partners/", "/partner/", "/ads/", "/ad/"} :
                   Includes(pathLower, seg), -30)
      hashPoints ==
        Bonus(HasRun(filenameLower, HexChars, 20) \/ HasRun(filenameLower, DigitChars, 10),
              -10)
      svgPoints == Bonus(IsSvgSource(imgData.source), 30)
      domainPoints ==
        IF imageDomain # "" /\ siteDomain # ""
        THEN Bonus(imageDomain = siteDomain \/ EndsWith(imageDomain, "." \o siteDomain), 15)
               + Bonus(\/ Includes(imageDomain, ReplaceFirst(siteDomain, ".", ""))
                       \/ Includes(urlLower, ReplaceFirst(siteDomain, ".", "-")), 10)
        ELSE 0
      isInLogoDirectory ==
        \E seg \in {"/assets/", "/images/", "/logo", "/brand"} :
          Includes(urlLower, seg) \/ Includes(pathLower, seg)
      startsLogoSep == StartsWith(filenameLower, "logo-") \/ StartsWith(filenameLower, "logo_")
      logoKeywordPoints ==
        IF hasLogoInFilename \/ hasLogoInPath
        THEN 10 + (IF hasLogoInFilename
                   THEN 15
                        + Bonus(isInLogoDirectory, 10)
                        + Bonus(\/ startsLogoSep
                                \/ Includes(filenameLower, "-logo")
                                \/ Includes(filenameLower, "_logo")
                                \/ filenameLower = "logo.png"
                                \/ filenameLower = "logo.svg", 10)
                        + Bonus(startsLogoSep /\ ~HasRun(filenameLower, HexChars, 20), 5)
                        + Bonus(\E w \in {"full", "white", "black", "color", "main", "site",
                                          "primary"} :
                                  StartsWith(filenameLower, "logo-" \o w), 10)
                   ELSE 0)
        ELSE 0
      isMainLogoDirectory ==
        \/ \E seg \in {"/assets/images/", "/assets/logo", "/images/logo", "/static/images/",
                       "/static/logo"} : Includes(urlLower, seg)
        \/ \E seg \in {"/assets/images/", "/images/logo"} : Includes(pathLower, seg)
      mainDirectoryPoints == Bonus(isMainLogoDirectory /\ hasLogoInFilename, 15)
      hasPartnerIndicator ==
        \E indicator \in {"partner", "sponsor", "ad", "advertisement", "affiliate"} :
          Includes(filenameLower, indicator) \/ Includes(urlLower, "/" \o indicator \o "/")
      partnerNamePoints == Bonus(hasPartnerIndicator /\ ~hasLogoInFilename, -20)
      Keyword(w) == Bonus(Includes(filenameLower, w) \/ Includes(pathLower, w), 5)
      secondaryPoints ==
        Keyword("brand") + Keyword("header") + Keyword("site") + Keyword("company")
      altIsThirdParty ==
        \E service \in thirdPartyServices :
          /\ (altLower = service \/ Includes(altLower, service))
          /\ toLowerCase(service) # siteNameLower
      altPoints ==
        IF imgData.alt # ""
        THEN Bonus(Includes(altLower, "logo"), 15)
               + Bonus(siteNameUsable /\ Includes(altLower, siteNameLower), 20)
               + Bonus(hasThirdPartyName /\ altIsThirdParty, -15)
               + Bonus(/\ Len(altLower) > 0 /\ Len(altLower) < 50
                       /\ ~Includes(altLower, " ")
                       /\ (~hasThirdPartyName \/ altLower = siteNameLower), 8)
               + Bonus(Includes(altLower, "company") \/ Includes(altLower, "home"), 5)
        ELSE 0
      hasLogoInClassId ==
        \/ imgData.className # "" /\ Includes(toLowerCase(imgData.className), "logo")
        \/ imgData.id # "" /\ Includes(toLowerCase(imgData.id), "logo")
      classIdPoints == ClassIdPoints(imgData.className) + ClassIdPoints(imgData.id)
      parentPoints  == ParentPoints(imgData.parentClassName) + ParentPoints(imgData.parentId)
      positionPoints ==
        IF imgData.hasPosition
        THEN Bonus(imgData.top < 200, 8)
               + Bonus(imgData.top < 100, 5)
               + Bonus(imgData.left < 100, 5)
               + Bonus(imgData.top < 200 /\ imgData.left < 200 /\ hasLogoInClassId, 5)
        ELSE 0
      sizePoints ==
        IF imgData.width # 0 /\ imgData.height # 0
        THEN Bonus(imgData.width >= 100 /\ imgData.width <= 400, 5)
               + Bonus(imgData.height >= 100 /\ imgData.height <= 400, 3)
               + Bonus(/\ imgData.width >= imgData.height
                       /\ imgData.width <= 3 * imgData.height, 5)
               + Bonus(imgData.width < 50 \/ imgData.height < 50, -3)
               + (IF imgData.width > 800 \/ imgData.height > 800
                  THEN IF ~hasLogoInClassId /\ imgData.alt = "" THEN -3 ELSE -1
                  ELSE 0)
        ELSE 0
      contextPoints ==
        Bonus(imgData.isInHeader, 10) + Bonus(imgData.isInNav, 8)
          + Bonus(imgData.isInHomepageLink, 10) + Bonus(imgData.isOnlyImageInLink, 5)
      svgContextPoints ==
        IF IsSvgSource(imgData.source)
        THEN Bonus(imgData.isInHeader \/ imgData.isInNav, 10)
               + Bonus(imgData.hasPosition /\ imgData.top < 200 /\ imgData.left < 200, 8)
               + Bonus(imgData.isInHomepageLink, 10)
        ELSE 0
  IN  siteNamePoints + foreignLogoPoints + thirdPartyPoints + partnerPathPoints
        + hashPoints + svgPoints + domainPoints + logoKeywordPoints + mainDirectoryPoints
        + partnerNamePoints + secondaryPoints + altPoints + classIdPoints + parentPoints
        + positionPoints + sizePoints + contextPoints + svgContextPoints

scoreImage(imgData, baseUrl) ==
  scoreSignals(imgData, getDomain(baseUrl, baseUrl), getSiteName(getDomain(baseUrl, baseUrl)),
               getDomain(imgData.url, baseUrl))

(***************************************************************************)
(* Candidate records.  Every record carries every field; a field the       *)
(* channel does not set is "", 0 or FALSE (undefined in the code), and     *)
(* hasScore tells whether logoScore is defined.                            *)
(***************************************************************************)
NoMeta ==
  [alt |-> "", className |-> "", id |-> "", parentClassName |-> "", parentId |-> "",
   width |-> 0, height |-> 0, hasPosition |-> FALSE, top |-> 0, left |-> 0,
   isInHeader |-> FALSE, isInNav |-> FALSE, isInHomepageLink |-> FALSE,
   isOnlyImageInLink |-> FALSE]

Candidate(url, filename, extension, source, pathname, meta) ==
  [url |-> url, filename |-> filename, extension |-> extension, source |-> source,
   pathname |-> pathname,
   alt |-> meta.alt, className |-> meta.className, id |-> meta.id,
   parentClassName |-> meta.parentClassName, parentId |-> meta.parentId,
   width |-> meta.width, height |-> meta.height,
   hasPosition |-> meta.hasPosition, top |-> meta.top, left |-> meta.left,
   isInHeader |-> meta.isInHeader, isInNav |-> meta.isInNav,
   isInHomepageLink |-> meta.isInHomepageLink,
   isOnlyImageInLink |-> meta.isOnlyImageInLink,
   isLogoFragment |-> FALSE, hasScore |-> FALSE, logoScore |-> 0, isFavicon |-> FALSE]

\* the record pushed without the logoScore assignment
NotScored(imageData, baseUrl) == imageData

\* imageData.logoScore = scoreImage(imageData)
Scored(imageData, baseUrl) ==
  [imageData EXCEPT !.hasScore = TRUE, !.logoScore = scoreImage(imageData, baseUrl)]

ImageExtensions == {"jpg", "jpeg", "png", "gif", "svg", "webp", "ico", "bmp", "tiff"}

\* src && (src.startsWith('http') || src.startsWith('data:image'))
LooksLikeSrc(src) == src # "" /\ (StartsWith(src, "http") \/ StartsWith(src, "data:image"))

\* the acceptance filter of the <img> channel
AcceptImg(normalizedUrl, extension) ==
  \/ StartsWith(normalizedUrl, "data:image")
  \/ extension \in ImageExtensions
  \/ \E dir \in {"/images/", "/img/", "/assets/", "/static/"} :
       Includes(toLowerCase(normalizedUrl), dir)

\* the acceptance filter of the computed background channel
AcceptBackground(normalizedUrl, extension) ==
  \/ StartsWith(normalizedUrl, "data:image")
  \/ extension \in ImageExtensions
  \/ \E dir \in {"/images/", "/img/"} : Includes(toLowerCase(normalizedUrl), dir)

\* the acceptance filter of the inline style channel
AcceptInlineStyle(normalizedUrl, extension) ==
  StartsWith(normalizedUrl, "data:image") \/ extension \in ImageExtensions

\* value || fallback on text
OrElse(value, fallback) == IF value = "" THEN fallback ELSE value

\* the record a channel builds for normalizedUrl: filename || fallback,
\* extension || (data-uri | unknown)
Built(normalizedUrl, source, meta, baseUrl, filenameFallback) ==
  Candidate(normalizedUrl,
            OrElse(getFilename(normalizedUrl, baseUrl), filenameFallback),
            OrElse(getExtension(getFilename(normalizedUrl, baseUrl)),
                   IF StartsWith(normalizedUrl, "data:image") THEN "data-uri" ELSE "unknown"),
            source, pathnameOf(normalizedUrl, baseUrl), meta)

\* the state of a harvest: the list and the set of urls seen
Harvest(list, seen) == [imageList |-> list, seenUrls |-> seen]

\* if (!seenUrls.has(normalizedUrl)) { seenUrls.add(normalizedUrl);
\*   if (accepted) imageList.push(record) }
Register(h, normalizedUrl, accepted, record) ==
  IF normalizedUrl \in h.seenUrls THEN h
  ELSE Harvest(IF accepted THEN Append(h.imageList, record) ELSE h.imageList,
               h.seenUrls \cup {normalizedUrl})

(***************************************************************************)
(* Channel 1: <img> elements.  possibleSrcs.forEach visits every source    *)
(* attribute of the element.                                               *)
(***************************************************************************)
imgFound(h, normalizedUrl, meta, baseUrl) ==
  Register(h, normalizedUrl,
           AcceptImg(normalizedUrl, getExtension(getFilename(normalizedUrl, baseUrl))),
           Scored(Built(normalizedUrl, "img-tag", meta, baseUrl, "unnamed"), baseUrl))

imgOneSrc(h, src, meta, baseUrl) ==
  IF LooksLikeSrc(src) THEN imgFound(h, normalizeUrl(src, baseUrl), meta, baseUrl) ELSE h

RECURSIVE imgElement(_, _, _, _)
imgElement(h, possibleSrcs, meta, baseUrl) ==
  IF Len(possibleSrcs) = 0 THEN h
  ELSE imgElement(imgOneSrc(h, Head(possibleSrcs), meta, baseUrl),
                  Tail(possibleSrcs), meta, baseUrl)

(***************************************************************************)
(* Channel 2: inline <svg> elements.  encoded is                           *)
(* btoa(unescape(encodeURIComponent(svg.outerHTML))).                      *)
(***************************************************************************)
svgFilename(meta) ==
  IF meta.id # "" THEN meta.id \o ".svg"
  ELSE IF meta.className # "" /\ Len(SelectSeq(SplitOn(meta.className, " "),
                                               LAMBDA c : Len(c) > 0)) > 0
  THEN SelectSeq(SplitOn(meta.className, " "), LAMBDA c : Len(c) > 0)[1] \o ".svg"
  ELSE "inline-svg"

svgElement(h, encoded, meta, baseUrl) ==
  LET dataUri == "data:image/svg+xml;base64," \o encoded
  IN  IF dataUri \in h.seenUrls THEN h
      ELSE Harvest(Append(h.imageList,
                          Scored(Candidate(dataUri, svgFilename(meta), "svg", "inline-svg",
                                           "", meta), baseUrl)),
                   h.seenUrls \cup {dataUri})

(***************************************************************************)
(* Channel 2b: <use> sprite references.  meta is the metadata of           *)
(* useEl.closest('svg'); headerOrLogoAncestor is                           *)
(* svg.closest('[class*="header"]') || svg.closest('[class*="logo"]').     *)
(***************************************************************************)
\* findIndex: the first position where hits, the sequence of the predicate's
\* results, is TRUE; 0 when there is none
FindIndex(hits) ==
  IF \E i \in 1..Len(hits) : hits[i]
  THEN CHOOSE i \in 1..Len(hits) : hits[i] /\ \A j \in 1..(i - 1) : ~hits[j]
  ELSE 0

\* list.splice(index, 1)
RemoveAt(list, index) == SubSeq(list, 1, index - 1) \o SubSeq(list, index + 1, Len(list))

\* spriteUrl.trim()
RECURSIVE Trim(_)
Trim(s) ==
  IF StartsWith(s, " ") THEN Trim(SubSeq(s, 2, Len(s)))
  ELSE IF EndsWith(s, " ") THEN Trim(SubSeq(s, 1, Len(s) - 1))
  ELSE s

\* the text after the "#" of spriteUrl names a logo
IsLogoFragment(spriteUrl) ==
  /\ Includes(spriteUrl, "#")
  /\ SplitOn(spriteUrl, "#")[2] # ""
  /\ \E w \in {"logo", "fw", "brand"} : Includes(toLowerCase(SplitOn(spriteUrl, "#")[2]), w)

\* spriteData.isLogoFragment = isLogoFragment; if (isLogoFragment) logoScore += 25
WithFragment(spriteData, isLogoFragment) ==
  [spriteData EXCEPT !.isLogoFragment = isLogoFragment,
                     !.logoScore = IF isLogoFragment THEN @ + 25 ELSE @]

\* the body of the channel once the sprite file url is normalized
useFound(h, normalizedUrl, isLogoFragment, meta, headerOrLogoAncestor, baseUrl) ==
  LET IsMarkupHit(img) ==
        /\ img.url = normalizedUrl
        /\ (img.source = "html-source-sprite" \/ img.source = "html-source")
      existingIndex == FindIndex([i \in 1..Len(h.imageList) |-> IsMarkupHit(h.imageList[i])])
      shouldAdd     == normalizedUrl \notin h.seenUrls
      shouldReplace == existingIndex > 0 /\ (isLogoFragment \/ headerOrLogoAncestor)
  IN  IF shouldAdd \/ shouldReplace
      THEN Harvest(Append(IF shouldReplace THEN RemoveAt(h.imageList, existingIndex)
                          ELSE h.imageList,
                          WithFragment(
                            Scored(Candidate(normalizedUrl,
                                             OrElse(getFilename(normalizedUrl, baseUrl),
                                                    "svg-sprite.svg"),
                                             "svg", "svg-sprite",
                                             pathnameOf(normalizedUrl, baseUrl), meta),
                                   baseUrl),
                            isLogoFragment)),
                   h.seenUrls \cup {normalizedUrl})
      ELSE h

\* spriteFileUrl is spriteUrl.split('#')[0].trim()
useSpriteFile(h, spriteUrl, spriteFileUrl, meta, headerOrLogoAncestor, baseUrl) ==
  IF Trim(spriteUrl) = "" \/ spriteFileUrl = "" \/ StartsWith(spriteFileUrl, "#") THEN h
  ELSE IF ~(\/ StartsWith(spriteFileUrl, "/") \/ StartsWith(spriteFileUrl, "./")
            \/ StartsWith(spriteFileUrl, "../") \/ StartsWith(spriteFileUrl, "http"))
  THEN h
  ELSE useFound(h, normalizeUrl(spriteFileUrl, baseUrl), IsLogoFragment(spriteUrl), meta,
                headerOrLogoAncestor, baseUrl)

useElement(h, spriteUrl, meta, headerOrLogoAncestor, baseUrl) ==
  useSpriteFile(h, spriteUrl, Trim(BeforeFirst(spriteUrl, "#")), meta, headerOrLogoAncestor,
                baseUrl)

(***************************************************************************)
(* Channel 3: every element, its computed background-image and then its    *)
(* inline style attribute.  bgSrc and styleSrc are the url(...) captures   *)
(* of the two regular expressions ("" when there is no match).  The        *)
(* computed-background record has no alt, parent or link fields; the       *)
(* inline-style record has no header / nav flags either.                   *)
(***************************************************************************)
backgroundMeta(meta) ==
  [NoMeta EXCEPT !.className = meta.className, !.id = meta.id,
                 !.hasPosition = meta.hasPosition, !.top = meta.top, !.left = meta.left,
                 !.isInHeader = meta.isInHeader, !.isInNav = meta.isInNav,
                 !.width = meta.width, !.height = meta.height]

inlineStyleMeta(meta) ==
  [NoMeta EXCEPT !.className = meta.className, !.id = meta.id,
                 !.hasPosition = meta.hasPosition, !.top = meta.top, !.left = meta.left,
                 !.width = meta.width, !.height = meta.height]

backgroundFound(h, normalizedUrl, meta, baseUrl) ==
  Register(h, normalizedUrl,
           AcceptBackground(normalizedUrl,
                            getExtension(getFilename(normalizedUrl, baseUrl))),
           Scored(Built(normalizedUrl, "css-background", backgroundMeta(meta), baseUrl,
                        "unnamed"), baseUrl))

backgroundOf(h, src, meta, baseUrl) ==
  IF LooksLikeSrc(src) THEN backgroundFound(h, normalizeUrl(src, baseUrl), meta, baseUrl)
  ELSE h

inlineStyleFound(h, normalizedUrl, meta, baseUrl) ==
  Register(h, normalizedUrl,
           AcceptInlineStyle(normalizedUrl,
                             getExtension(getFilename(normalizedUrl, baseUrl))),
           Scored(Built(normalizedUrl, "inline-style", inlineStyleMeta(meta), baseUrl,
                        "unnamed"), baseUrl))

inlineStyleOf(h, src, meta, baseUrl) ==
  IF LooksLikeSrc(src) THEN inlineStyleFound(h, normalizeUrl(src, baseUrl), meta, baseUrl)
  ELSE h

styledElement(h, bgSrc, styleSrc, meta, baseUrl) ==
  inlineStyleOf(backgroundOf(h, bgSrc, meta, baseUrl), styleSrc, meta, baseUrl)

(***************************************************************************)
(* Channel 4: the two regular-expression scans of the serialized markup.   *)
(* found is one match (match[1]).                                          *)
(***************************************************************************)
MarkupDelimiters == {" ", "\"", "'", "<", ">"}

\* /(https?:\/\/[^\s"'<>]*\.(png|jpg|jpeg|svg|webp|gif|ico|bmp|tiff)[^\s"'<>]*)/i
\* matches the whole of s
IsImageUrlMatch(s) ==
  /\ StartsWith(toLowerCase(s), "http://") \/ StartsWith(toLowerCase(s), "https://")
  /\ \A i \in 1..Len(s) : Char(s, i) \notin MarkupDelimiters
  /\ \E ext \in {"png", "jpg", "jpeg", "svg", "webp", "gif", "ico", "bmp", "tiff"} :
       Includes(toLowerCase(SubSeq(s, IndexOf(s, "://") + 3, Len(s))), "." \o ext)

\* the capture of /(?:href|xlink:href)\s*=\s*["']?([^"'\s<>]*\.svg[^"'\s<>]*)/i
IsSpriteHrefMatch(s) ==
  /\ \A i \in 1..Len(s) : Char(s, i) \notin MarkupDelimiters
  /\ Includes(toLowerCase(s), ".svg")

markupFound(h, normalizedUrl, baseUrl) ==
  Register(h, normalizedUrl, TRUE,
           Scored(Built(normalizedUrl, "html-source", NoMeta, baseUrl, "unnamed"), baseUrl))

markupMatch(h, found, baseUrl) ==
  IF found = "" THEN h ELSE markupFound(h, normalizeUrl(found, baseUrl), baseUrl)

spriteMarkupFound(h, normalizedUrl, baseUrl) ==
  Register(h, normalizedUrl,
           \/ getExtension(getFilename(normalizedUrl, baseUrl)) = "svg"
           \/ Includes(toLowerCase(normalizedUrl), ".svg"),
           Scored(Candidate(normalizedUrl,
                            OrElse(getFilename(normalizedUrl, baseUrl), "svg-sprite.svg"),
                            "svg", "html-source-sprite",
                            pathnameOf(normalizedUrl, baseUrl), NoMeta),
                  baseUrl))

\* spriteUrl is found.split('#')[0].trim()
spriteMarkupFile(h, found, spriteUrl, baseUrl) ==
  IF found = "" \/ spriteUrl = "" \/ StartsWith(spriteUrl, "#") THEN h
  ELSE spriteMarkupFound(h, normalizeUrl(spriteUrl, baseUrl), baseUrl)

spriteMarkupMatch(h, found, baseUrl) ==
  spriteMarkupFile(h, found, Trim(BeforeFirst(found, "#")), baseUrl)

(***************************************************************************)
(* Channel 5: data-* attributes.  found is the url matched in the value of *)
(* the attribute attrName; the record is pushed without a score.           *)
(***************************************************************************)
\* the channel with the scoring the other channels do before the push
dataFoundScored(h, attrName, normalizedUrl, baseUrl) ==
  Register(h, normalizedUrl, TRUE,
           Scored([Built(normalizedUrl, "data-attribute-" \o attrName, NoMeta, baseUrl,
                         "unnamed")
                     EXCEPT !.pathname = ""], baseUrl))

dataFound(h, attrName, normalizedUrl, baseUrl) ==
  Register(h, normalizedUrl, TRUE,
           [Built(normalizedUrl, "data-attribute-" \o attrName, NoMeta, baseUrl, "unnamed")
              EXCEPT !.pathname = ""])

dataAttribute(h, attrName, found, baseUrl) ==
  IF ~StartsWith(attrName, "data-") \/ found = "" THEN h
  ELSE dataFound(h, attrName, normalizeUrl(found, baseUrl), baseUrl)

(***************************************************************************)
(* The sort at the end of the in-page harvest                              *)
(***************************************************************************)
\* sourcePriority[source] || 99
sourcePriority(source) ==
  IF source \in {"img-tag", "inline-svg", "svg-sprite"} THEN 1
  ELSE IF source = "css-background" THEN 2
  ELSE IF source = "inline-style" THEN 3
  ELSE IF source \in {"html-source", "html-source-sprite"} THEN 4
  ELSE IF source = "data-attribute" THEN 5
  ELSE 99

hasSiteNameInImage(img, siteName) ==
  /\ siteName # "" /\ Len(siteName) > 2
  /\ \/ Includes(toLowerCase(img.filename), toLowerCase(siteName))
     \/ Includes(toLowerCase(img.url), toLowerCase(siteName))

Abs(n) == IF n < 0 THEN -n ELSE n

\* the comparator without its site name branches
compareIgnoringSiteName(a, b, siteName) ==
  IF a.hasScore /\ b.hasScore /\ Abs(b.logoScore - a.logoScore) <= 15
     /\ IsSvgSource(a.source) # IsSvgSource(b.source)
  THEN IF IsSvgSource(a.source) THEN -1 ELSE 1
  ELSE IF a.hasScore /\ b.hasScore /\ b.logoScore # a.logoScore
  THEN b.logoScore - a.logoScore
  ELSE sourcePriority(a.source) - sourcePriority(b.source)

\* the comparator without its vector branches
compareIgnoringVectors(a, b, siteName) ==
  IF hasSiteNameInImage(a, siteName) /\ ~hasSiteNameInImage(b, siteName) THEN -1
  ELSE IF hasSiteNameInImage(b, siteName) /\ ~hasSiteNameInImage(a, siteName) THEN 1
  ELSE IF a.hasScore /\ b.hasScore /\ b.logoScore # a.logoScore
  THEN b.logoScore - a.logoScore
  ELSE sourcePriority(a.source) - sourcePriority(b.source)

\* the comparator without the branch that returns 1 for a vector b in the band
compareVectorOnLeftOnly(a, b, siteName) ==
  IF hasSiteNameInImage(a, siteName) /\ ~hasSiteNameInImage(b, siteName) THEN -1
  ELSE IF hasSiteNameInImage(b, siteName) /\ ~hasSiteNameInImage(a, siteName) THEN 1
  ELSE IF /\ a.hasScore /\ b.hasScore /\ Abs(b.logoScore - a.logoScore) <= 15
          /\ IsSvgSource(a.source) /\ ~IsSvgSource(b.source)
  THEN -1
  ELSE IF a.hasScore /\ b.hasScore /\ b.logoScore # a.logoScore
  THEN b.logoScore - a.logoScore
  ELSE sourcePriority(a.source) - sourcePriority(b.source)

\* the comparator handed to imageList.sort: negative when a goes first
compareImages(a, b, siteName) ==
  LET aHasSiteName == hasSiteNameInImage(a, siteName)
      bHasSiteName == hasSiteNameInImage(b, siteName)
      bothScored   == a.hasScore /\ b.hasScore
      scoreDiff    == Abs(b.logoScore - a.logoScore)
      aIsSvg       == IsSvgSource(a.source)
      bIsSvg       == IsSvgSource(b.source)
  IN  IF aHasSiteName /\ ~bHasSiteName THEN -1
      ELSE IF bHasSiteName /\ ~aHasSiteName THEN 1
      ELSE IF bothScored /\ scoreDiff <= 15 /\ aIsSvg /\ ~bIsSvg THEN -1
      ELSE IF bothScored /\ scoreDiff <= 15 /\ bIsSvg /\ ~aIsSvg THEN 1
      ELSE IF bothScored /\ b.logoScore # a.logoScore THEN b.logoScore - a.logoScore
      ELSE sourcePriority(a.source) - sourcePriority(b.source)

\* Array.prototype.sort is stable; this is the stable insertion sort, which
\* every stable sort agrees with on a consistent comparator.  compare[i][j] is
\* the comparator's result on list[i] and list[j]; the positions are sorted.
SortedBy(list, compare) ==
  LET Insert(sorted, x) ==
        LET p == CHOOSE p \in 0..Len(sorted) :
                   /\ p = 0 \/ compare[sorted[p]][x] <= 0
                   /\ \A q \in (p + 1)..Len(sorted) : compare[sorted[q]][x] > 0
        IN  SubSeq(sorted, 1, p) \o <<x>> \o SubSeq(sorted, p + 1, Len(sorted))
      upTo[i \in 0..Len(list)] == IF i = 0 THEN <<>> ELSE Insert(upTo[i - 1], i)
  IN  [k \in 1..Len(list) |-> list[upTo[Len(list)][k]]]

\* imageList.sort(comparator) with the siteName of the page
sortBySiteName(list, siteName) ==
  SortedBy(list, [i \in 1..Len(list) |->
                   [j \in 1..Len(list) |-> compareImages(list[i], list[j], siteName)]])

sortImageList(list, baseUrl) == sortBySiteName(list, getSiteName(getDomain(baseUrl, baseUrl)))

(***************************************************************************)
(* After page.evaluate: the favicon append of extractAllImagesWithPage     *)
(***************************************************************************)
faviconRecord(faviconUrl) ==
  [Candidate(faviconUrl, "favicon.ico", "ico", "favicon", "", NoMeta)
     EXCEPT !.hasScore = TRUE, !.logoScore = 0, !.isFavicon = TRUE]

\* the append without the images.some(img => img.url === faviconUrl) test
appendFaviconUnchecked(images, faviconUrl) ==
  IF faviconUrl # "" THEN Append(images, faviconRecord(faviconUrl)) ELSE images

appendFavicon(images, faviconUrl) ==
  IF faviconUrl # "" /\ ~(\E i \in 1..Len(images) : images[i].url = faviconUrl)
  THEN Append(images, faviconRecord(faviconUrl))
  ELSE images

(***************************************************************************)
(* utils/siteHelpers.js getSiteName(url) and utils/imageHelpers.js         *)
(* findTopLogo(images, siteName).  The result is <<>> for null and <<img>> *)
(* for a candidate.                                                        *)
(***************************************************************************)
\* the body of the try, on the parsed url
siteNameOfParsed(urlObj) ==
  IF urlObj.ok THEN MainLabel(SplitOn(StripWww(toLowerCase(urlObj.hostname)), ".")) ELSE ""

siteNameOfUrl(url) == siteNameOfParsed(ParseAbsolute(url))

compareByScore(a, b) == b.logoScore - a.logoScore

\* scoredImages.sort((a, b) => b.logoScore - a.logoScore)
sortByScore(list) ==
  SortedBy(list, [i \in 1..Len(list) |->
                   [j \in 1..Len(list) |-> compareByScore(list[i], list[j])]])

IsConclusiveBackground(img) ==
  /\ img.source = "css-background"
  /\ img.url # "" /\ StartsWith(img.url, "data:image/svg+xml")
  /\ img.className # "" /\ Includes(toLowerCase(img.className), "logo")
  /\ img.isInHeader

\* the first of scoredImages that is conclusive, then the first with the site
\* name, then the first
pickTopLogo(scoredImages, conclusive, withSiteName) ==
  IF Len(scoredImages) = 0 THEN <<>>
  ELSE IF conclusive > 0 THEN <<scoredImages[conclusive]>>
  ELSE IF withSiteName > 0 THEN <<scoredImages[withSiteName]>>
  ELSE <<scoredImages[1]>>

\* the selection on the filtered and sorted list
topOfScored(scoredImages, siteName) ==
  pickTopLogo(scoredImages,
              FindIndex([i \in 1..Len(scoredImages) |->
                          IsConclusiveBackground(scoredImages[i])]),
              IF siteName # "" /\ Len(siteName) > 2
              THEN FindIndex([i \in 1..Len(scoredImages) |->
                               \/ Includes(toLowerCase(scoredImages[i].filename),
                                           toLowerCase(siteName))
                               \/ Includes(toLowerCase(scoredImages[i].url),
                                           toLowerCase(siteName))])
              ELSE 0)

\* findTopLogo with the filter logoScore >= 0
findTopLogoFromZero(images, siteName) ==
  topOfScored(sortByScore(SelectSeq(images, LAMBDA img : img.hasScore /\ img.logoScore >= 0)),
              siteName)

\* findTopLogo without the css-background short-circuit
findTopLogoByRank(images, siteName) ==
  pickTopLogo(sortByScore(SelectSeq(images, LAMBDA img : img.hasScore /\ img.logoScore > 0)),
              0, 0)

findTopLogo(images, siteName) ==
  topOfScored(sortByScore(SelectSeq(images, LAMBDA img : img.hasScore /\ img.logoScore > 0)),
              siteName)

(***************************************************************************)
(* The pages and calls explored.  An element is what the channel reads     *)
(* from the DOM; the pools are small and chosen so that url collisions,    *)
(* rejected urls, unscored records and both signs of the score occur.      *)
(***************************************************************************)
MaxElements == 3

Calls ==
  { [baseUrl |-> "https://acme.com", faviconUrl |-> ""],
    [baseUrl |-> "https://acme.com", faviconUrl |-> "https://acme.com/favicon.ico"] }

AtTopLeft == [NoMeta EXCEPT !.hasPosition = TRUE, !.top = 40, !.left = 20]

BelowFold == [NoMeta EXCEPT !.hasPosition = TRUE, !.top = 900, !.left = 500]

ImgElements ==
  { [possibleSrcs |-> <<"https://acme.com/assets/images/logo-full-color.png">>,
     meta |-> [AtTopLeft EXCEPT !.alt = "Acme logo", !.className = "site-logo"]],
    [possibleSrcs |-> <<"https://cdn.example.org/img/logo.png",
                        "https://cdn.example.org/img/logo-2x.png">>,
     meta |-> [BelowFold EXCEPT !.className = "logo", !.isInHeader = TRUE]],
    [possibleSrcs |-> <<"https://cdn.example.org/static/banner",
                        "https://acme.com/media/hero.jpg/large">>, meta |-> BelowFold] }

SvgElements ==
  { [encoded |-> "PHN2Zz4=", meta |-> [AtTopLeft EXCEPT !.isInHeader = TRUE]] }

UseElements ==
  { [spriteUrl |-> "/sprite.svg#i-logo-fw", meta |-> AtTopLeft,
     headerOrLogoAncestor |-> TRUE],
    [spriteUrl |-> "#icon-close", meta |-> BelowFold, headerOrLogoAncestor |-> FALSE] }

StyledElements ==
  { [bgSrc |-> "data:image/svg+xml;base64,PHN2Zz4=", styleSrc |-> "",
     meta |-> [AtTopLeft EXCEPT !.className = "logo", !.isInHeader = TRUE]],
    [bgSrc |-> "data:image/svg+xml;base64,AWSad", styleSrc |-> "",
     meta |-> [BelowFold EXCEPT !.className = "footer-logo", !.isInHeader = TRUE]],
    [bgSrc |-> "https://cdn.example.org/static/banner",
     styleSrc |-> "https://cdn.example.org/img/logo.png", meta |-> AtTopLeft],
    [bgSrc |-> "https://cdn.example.org/img/logo.png", styleSrc |-> "",
     meta |-> [BelowFold EXCEPT !.className = "promo"]] }

MarkupMatches ==
  { "https://acme.com/assets/images/logo-full-color.png",
    "https://acme.com/partners/stripe-badge.png",
    "https://acme.com/favicon.ico" }

SpriteMarkupMatches == { "/sprite.svg#i-logo-fw", "#icon-close.svg" }

DataAttributes ==
  { [attrName |-> "data-bg", found |-> "https://cdn.example.org/hero.jpg"],
    [attrName |-> "data-src", found |-> "https://acme.com/img/hero.jpg"],
    [attrName |-> "data-src", found |-> "https://acme.com/media/hero.jpg/large"] }

(***************************************************************************)
(* One call of extractAllImagesWithPage followed by the caller's           *)
(* findTopLogo.  phase is the position in the code: the channel whose loop *)
(* is running, then sort, favicon, select, done; failed is the rejection   *)
(* of page.evaluate by an exception no handler caught.                     *)
(***************************************************************************)
VARIABLES baseUrl, faviconUrl, phase, imageList, seenUrls, processed, topLogo

(***************************************************************************)
(* The state of the callers of extractAllImages (combinedExtractor.js main *)
(* and the batch processUrl): attempts is the list of waitUntil conditions *)
(* navigateWithFallback has passed to page.goto, images and colorsResult   *)
(* are the two promises handed to Promise.allSettled, result is the        *)
(* per-url result.  urlString and normalized are the argument and the      *)
(* outcome of one call of utils/urlHelpers.js normalizeUrl.                *)
(***************************************************************************)
VARIABLES attempts, images, colorsResult, result, urlString, normalized

callerVars == <<attempts, images, colorsResult, result>>

urlVars == <<urlString, normalized>>

\* the site name the in-page harvest computed and the one findTopLogo computed
VARIABLES harvestName, selectName

nameVars == <<harvestName, selectName>>

\* inside extractAllImages: the browser ("none" before chromium.launch returns,
\* then "open", then "closed") and the completion of the try block that the
\* finally block holds back while it runs
VARIABLES browser, completion

browserVars == <<browser, completion>>

\* the base64 persistence loop of imageExtractor.js main: clock is Date.now(),
\* files is the content of the output directory by path, savedAs is the
\* savedAsFile of each base64 candidate the loop has passed ("" when
\* saveBase64Image returned null)
VARIABLES clock, files, savedAs

saveVars == <<clock, files, savedAs>>

sideVars == <<nameVars, browserVars, saveVars>>

vars == <<baseUrl, faviconUrl, phase, imageList, seenUrls, processed, topLogo,
          callerVars, urlVars, sideVars>>

\* a promise that was not created
NoPromise == [status |-> "none", value |-> <<>>, reason |-> ""]

\* result of processUrl before the try
NoResult == [logo_url |-> "", colors |-> [primary |-> "", secondary |-> ""],
             error |-> "", status |-> "success"]

\* no caller and no call of normalizeUrl take part
NoCaller == attempts = <<>> /\ images = NoPromise /\ colorsResult = NoPromise
            /\ result = NoResult

NoUrlCall == urlString = "" /\ normalized = [returned |-> FALSE, value |-> ""]

NoNames == harvestName = "" /\ selectName = ""

NoBrowser == browser = "none" /\ completion = NoPromise

NoSave == clock = 0 /\ files = {} /\ savedAs = <<>>

NoSide == NoNames /\ NoBrowser /\ NoSave

Init ==
  /\ \E call \in Calls : baseUrl = call.baseUrl /\ faviconUrl = call.faviconUrl
  /\ phase = "img"
  /\ imageList = <<>>
  /\ seenUrls = {}
  /\ processed = 0
  /\ topLogo = <<>>
  /\ NoCaller /\ NoUrlCall /\ NoSide

Now == Harvest(imageList, seenUrls)

\* the loop body of a channel ran on one more element and left the harvest h
Visit(h) ==
  /\ processed < MaxElements
  /\ processed' = processed + 1
  /\ imageList' = h.imageList
  /\ seenUrls' = h.seenUrls
  /\ UNCHANGED <<callerVars, urlVars, sideVars, baseUrl, faviconUrl, phase, topLogo>>

\* the loop of a channel ended
EndLoop(from, to) ==
  /\ phase = from
  /\ phase' = to
  /\ UNCHANGED <<callerVars, urlVars, sideVars, baseUrl, faviconUrl, imageList, seenUrls, processed, topLogo>>

\* an exception left the page function: page.evaluate rejects, nothing is returned
Reject ==
  /\ processed < MaxElements
  /\ processed' = processed + 1
  /\ phase' = "failed"
  /\ imageList' = <<>>
  /\ UNCHANGED <<callerVars, urlVars, sideVars, baseUrl, faviconUrl, seenUrls, topLogo>>

ImgElement ==
  /\ phase = "img"
  /\ \E el \in ImgElements : Visit(imgElement(Now, el.possibleSrcs, el.meta, baseUrl))

\* scoreImage throws on a registered <img> (a parent className that is not a
\* string has no toLowerCase); the forEach callback has no try
ImgElementThrows ==
  /\ phase = "img"
  /\ \E el \in ImgElements :
       Len(imgElement(Now, el.possibleSrcs, el.meta, baseUrl).imageList) > Len(imageList)
  /\ Reject

ImgDone == EndLoop("img", "svg")

SvgElement ==
  /\ phase = "svg"
  /\ \E el \in SvgElements : Visit(svgElement(Now, el.encoded, el.meta, baseUrl))

\* an exception while the <svg> is processed, after seenUrls.add: caught, the
\* element is skipped
SvgElementThrows ==
  /\ phase = "svg"
  /\ \E el \in SvgElements :
       /\ Len(svgElement(Now, el.encoded, el.meta, baseUrl).imageList) > Len(imageList)
       /\ Visit(Harvest(imageList, svgElement(Now, el.encoded, el.meta, baseUrl).seenUrls))

SvgDone == EndLoop("svg", "use")

UseElement ==
  /\ phase = "use"
  /\ \E el \in UseElements :
       Visit(useElement(Now, el.spriteUrl, el.meta, el.headerOrLogoAncestor, baseUrl))

\* an exception while the <use> is processed, after seenUrls.add: caught
UseElementThrows ==
  /\ phase = "use"
  /\ \E el \in UseElements :
       LET h == useElement(Now, el.spriteUrl, el.meta, el.headerOrLogoAncestor, baseUrl)
       IN  /\ Len(h.imageList) > Len(imageList)
           /\ Visit(Harvest(imageList, h.seenUrls))

UseDone == EndLoop("use", "styled")

StyledElement ==
  /\ phase = "styled"
  /\ \E el \in StyledElements :
       Visit(styledElement(Now, el.bgSrc, el.styleSrc, el.meta, baseUrl))

\* scoreImage throws on a registered background (the className of an SVG
\* element is not a string); the forEach callback has no try
StyledElementThrows ==
  /\ phase = "styled"
  /\ \E el \in StyledElements :
       Len(styledElement(Now, el.bgSrc, el.styleSrc, el.meta, baseUrl).imageList)
         > Len(imageList)
  /\ Reject

StyledDone == EndLoop("styled", "markup")

MarkupMatch ==
  /\ phase = "markup"
  /\ \E found \in MarkupMatches :
       IsImageUrlMatch(found) /\ Visit(markupMatch(Now, found, baseUrl))

MarkupDone == EndLoop("markup", "spriteMarkup")

SpriteMarkupMatch ==
  /\ phase = "spriteMarkup"
  /\ \E found \in SpriteMarkupMatches :
       IsSpriteHrefMatch(found) /\ Visit(spriteMarkupMatch(Now, found, baseUrl))

\* the <use> loop placed after the two markup scans
SpriteMarkupThenUse == EndLoop("spriteMarkup", "use")

SpriteMarkupDone == EndLoop("spriteMarkup", "data")

DataAttribute ==
  /\ phase = "data"
  /\ \E a \in DataAttributes :
       IsImageUrlMatch(a.found) /\ Visit(dataAttribute(Now, a.attrName, a.found, baseUrl))

DataDone == EndLoop("data", "sort")

Sort ==
  /\ phase = "sort"
  /\ phase' = "favicon"
  /\ imageList' = sortImageList(imageList, baseUrl)
  /\ UNCHANGED <<callerVars, urlVars, sideVars, baseUrl, faviconUrl, seenUrls, processed, topLogo>>

Favicon ==
  /\ phase = "favicon"
  /\ phase' = "select"
  /\ imageList' = appendFavicon(imageList, faviconUrl)
  /\ UNCHANGED <<callerVars, urlVars, sideVars, baseUrl, faviconUrl, seenUrls, processed, topLogo>>

\* main: imagesData.length > 0 ? findTopLogo(imagesData, getSiteName(url)) : null
Select ==
  /\ phase = "select"
  /\ phase' = "done"
  /\ topLogo' = IF Len(imageList) > 0 THEN findTopLogo(imageList, siteNameOfUrl(baseUrl))
                ELSE <<>>
  /\ UNCHANGED <<callerVars, urlVars, sideVars, baseUrl, faviconUrl, imageList, seenUrls, processed>>

\* prev.logoScore > current.logoScore: false when either score is undefined
ScoresAbove(prev, current) ==
  prev.hasScore /\ current.hasScore /\ prev.logoScore > current.logoScore

\* images.reduce((prev, current) => (prev.logoScore > current.logoScore) ? prev : current)
reduceTopLogo(list) ==
  LET acc[k \in 1..Len(list)] ==
        IF k = 1 THEN list[1]
        ELSE IF ScoresAbove(acc[k - 1], list[k]) THEN acc[k - 1] ELSE list[k]
  IN  acc[Len(list)]

\* runTests: extractAllImages(testCase.url), then the reduce over the whole list
HarnessSelect ==
  /\ phase = "select"
  /\ faviconUrl = ""
  /\ phase' = "tested"
  /\ topLogo' = IF Len(imageList) > 0 THEN <<reduceTopLogo(imageList)>> ELSE <<>>
  /\ UNCHANGED <<callerVars, urlVars, sideVars, baseUrl, faviconUrl, imageList, seenUrls, processed>>

Next ==
  \/ ImgElement \/ ImgElementThrows \/ ImgDone
  \/ SvgElement \/ SvgElementThrows \/ SvgDone
  \/ UseElement \/ UseElementThrows \/ UseDone
  \/ StyledElement \/ StyledElementThrows \/ StyledDone
  \/ MarkupMatch \/ MarkupDone
  \/ SpriteMarkupMatch \/ SpriteMarkupDone
  \/ DataAttribute \/ DataDone
  \/ Sort \/ Favicon \/ Select \/ HarnessSelect

Spec == Init /\ [][Next]_vars

(***************************************************************************)
(* The ranking on its own: the sort, the favicon append and findTopLogo    *)
(* applied to a list of records whose scores are given.  logoScore stands  *)
(* for the value scoreImage gave the record from metadata that neither the *)
(* comparator nor findTopLogo reads.                                       *)
(***************************************************************************)
MaxCands == 3

Ranked(url, filename, extension, source, meta, score) ==
  [Candidate(url, filename, extension, source, "", meta)
     EXCEPT !.hasScore = TRUE, !.logoScore = score]

InHeader == [AtTopLeft EXCEPT !.isInHeader = TRUE]

\* an inline vector logo in the header, without and with the site name
HeaderVector ==
  Ranked("data:image/svg+xml;base64,PHN2Zz4=", "logo.svg", "svg", "inline-svg", InHeader, 38)

NamedHeaderVector ==
  Ranked("data:image/svg+xml;base64,PHN2ZyB4", "acme-logo.svg", "svg", "inline-svg",
         InHeader, 38)

SpriteVector ==
  Ranked("https://cdn.example.org/sprite.svg", "sprite.svg", "svg", "svg-sprite", NoMeta, 40)

PartnerBadge ==
  Ranked("https://cdn.partner.io/badge.png", "badge.png", "png", "img-tag", BelowFold, 45)

Banner ==
  Ranked("https://cdn.example.org/img/banner.png", "banner.png", "png", "img-tag", NoMeta, 50)

Hero ==
  Ranked("https://cdn.example.org/img/hero.png", "hero.png", "png", "css-background",
         NoMeta, 60)

\* a low-scoring record of the site itself
OwnMark ==
  Ranked("https://acme.com/img/mark.png", "mark.png", "png", "img-tag", BelowFold, 5)

\* what the data attribute channel pushes: no score
Unscored ==
  Candidate("https://cdn.example.org/hero.jpg", "hero.jpg", "jpg", "data-attribute-data-bg",
            "", NoMeta)

RankPool ==
  {HeaderVector, NamedHeaderVector, SpriteVector, PartnerBadge, Banner, Hero, OwnMark,
   Unscored}

RankCalls ==
  { [baseUrl |-> "https://acme.com", faviconUrl |-> "https://acme.com/favicon.ico"],
    [baseUrl |-> "https://ab.io", faviconUrl |-> ""] }

\* the lists of 1 to MaxCands records of the pool, no url twice
RankLists ==
  UNION { { l \in [1..n -> RankPool] : \A i, j \in 1..n : l[i] = l[j] => i = j }
          : n \in 1..MaxCands }

InitRank ==
  /\ \E call \in RankCalls : baseUrl = call.baseUrl /\ faviconUrl = call.faviconUrl
  /\ phase = "sort"
  /\ imageList \in RankLists
  /\ seenUrls = {imageList[i].url : i \in 1..Len(imageList)}
  /\ processed = 0
  /\ topLogo = <<>>
  /\ NoCaller /\ NoUrlCall /\ NoSide

NextRank == Sort \/ Favicon \/ Select

SpecRank == InitRank /\ [][NextRank]_vars

(***************************************************************************)
(* scoreImage on its own: one record, built the way the <img>, computed    *)
(* background and markup channels build theirs, is scored and handed to    *)
(* findTopLogo as the only image of the page.                              *)
(***************************************************************************)
ScoreCalls == {"https://acme.com", "https://ab.io"}

\* urls as normalizeUrl leaves them
ScoreUrls ==
  { "https://acme.com/partners/stripe-badge.png",
    "https://cdn.example.org/img/logo.png",
    "https://acme.com/assets/images/logo-full-color.png" }

ScorePositions == {NoMeta, AtTopLeft, BelowFold}

ScoreSizes == {<<0, 0>>, <<200, 100>>, <<1000, 900>>}

\* what the DOM gives for the element
ScoreMetas ==
  { [position EXCEPT !.alt = alt, !.className = className, !.id = id,
                     !.width = size[1], !.height = size[2], !.isInHeader = isInHeader]
    : position \in ScorePositions, alt \in {"", "Acme logo", "Stripe"},
      className \in {"", "site-logo", "brand nav"}, id \in {"", "logo"},
      size \in ScoreSizes, isInHeader \in BOOLEAN }

\* the metadata the channel with this source keeps
KeptMeta(source, meta) ==
  IF source = "img-tag" THEN meta
  ELSE IF source = "css-background" THEN backgroundMeta(meta)
  ELSE NoMeta

InitScore ==
  /\ baseUrl \in ScoreCalls
  /\ faviconUrl = ""
  /\ phase = "score"
  /\ \E url \in ScoreUrls, source \in {"img-tag", "css-background", "html-source"},
        meta \in ScoreMetas :
       /\ imageList = <<Built(url, source, KeptMeta(source, meta), baseUrl, "unnamed")>>
       /\ seenUrls = {url}
  /\ processed = 0
  /\ topLogo = <<>>
  /\ NoCaller /\ NoUrlCall /\ NoSide

\* imageData.logoScore = scoreImage(imageData) on the record
ScoreCandidate ==
  /\ phase = "score"
  /\ phase' = "select"
  /\ imageList' = <<Scored(imageList[1], baseUrl)>>
  /\ UNCHANGED <<callerVars, urlVars, sideVars, baseUrl, faviconUrl, seenUrls, processed, topLogo>>

NextScore == ScoreCandidate \/ Select

SpecScore == InitScore /\ [][NextScore]_vars

(***************************************************************************)
(* imageExtractor.js main: the candidates with a data:image url are        *)
(* written to the output directory by saveBase64Image.                     *)
(***************************************************************************)
IsLetters(s) ==
  Len(s) > 0 /\ \A i \in 1..Len(s) :
    \E k \in 1..Len(LowerChars) : Char(s, i) \in {LowerChars[k], UpperChars[k]}

\* base64Data.match(/^data:image\/([a-z]+);base64,(.+)$/i): the image type and
\* the content, ok = FALSE for null
base64Match(base64Data) ==
  LET type    == SubSeq(base64Data, 12, IndexOf(base64Data, ";base64,") - 1)
      content == SubSeq(base64Data, IndexOf(base64Data, ";base64,") + 8, Len(base64Data))
  IN  IF /\ toLowerCase(SubSeq(base64Data, 1, 11)) = "data:image/"
         /\ Includes(base64Data, ";base64,")
         /\ IsLetters(type)
         /\ Len(content) > 0
      THEN [ok |-> TRUE, imageType |-> type, base64Content |-> content]
      ELSE [ok |-> FALSE, imageType |-> "", base64Content |-> ""]

\* extensionMap[imageType] || imageType
extensionOf(imageType) == IF imageType = "jpeg" THEN "jpg" ELSE imageType

\* finalFilename of saveBase64Image; timestamp is Date.now()
finalFilenameOf(filename, extension, timestamp) ==
  IF filename = "" \/ filename = "unnamed" \/ ~Includes(filename, ".")
  THEN "image_" \o ToString(timestamp) \o "." \o extension
  ELSE IF AfterLast(filename, ".") # extension
  THEN BeforeFirst(filename, ".") \o "." \o extension
  ELSE filename

\* saveBase64Image(base64Data, filename, outputDir) called when Date.now() is
\* timestamp: ok = FALSE for null
saveBase64Image(base64Data, filename, outputDir, timestamp) ==
  LET found == base64Match(base64Data)
      name  == finalFilenameOf(filename, extensionOf(found.imageType), timestamp)
  IN  IF found.ok
      THEN [ok |-> TRUE, savedPath |-> outputDir \o "/" \o name, filename |-> name,
            content |-> found.base64Content, format |-> found.imageType]
      ELSE [ok |-> FALSE, savedPath |-> "", filename |-> "", content |-> "", format |-> ""]

\* writeFileSync(filePath, buffer)
writeFile(dir, filePath, buffer) ==
  {f \in dir : f.path # filePath} \cup {[path |-> filePath, content |-> buffer]}

MaxBase64 == 3

MaxTicks == 1

\* data: urls of <img> elements, as the harvest leaves them
Base64Urls ==
  { "data:image/png;base64,iVBORw0KGgo=", "data:image/png;base64,R0lGODlhAQ/x",
    "data:image/gif;base64,R0lGODdh", "data:image/svg+xml;base64,PHN2Zz4=" }

\* images.filter(img => img.url && img.url.startsWith('data:image')): the lists
\* of 1 to MaxBase64 records, no url twice
Base64Lists ==
  UNION { { [i \in 1..n |-> Built(l[i], "img-tag", NoMeta, "https://acme.com", "unnamed")]
              : l \in { l \in [1..n -> Base64Urls] : \A i, j \in 1..n : l[i] = l[j] => i = j } }
          : n \in 1..MaxBase64 }

FirstMillisecond == 1000

InitSave ==
  /\ baseUrl = "https://acme.com"
  /\ faviconUrl = ""
  /\ phase = "save"
  /\ imageList \in Base64Lists
  /\ seenUrls = {imageList[i].url : i \in 1..Len(imageList)}
  /\ processed = 0
  /\ topLogo = <<>>
  /\ NoCaller /\ NoUrlCall /\ NoNames /\ NoBrowser
  /\ clock = FirstMillisecond /\ files = {} /\ savedAs = <<>>

\* one call of the forEach callback on the next base64 candidate
SaveNext ==
  /\ phase = "save"
  /\ processed < Len(imageList)
  /\ LET img == imageList[processed + 1]
         saveResult == saveBase64Image(img.url,
                                       OrElse(img.filename,
                                              "base64_image_" \o ToString(processed)),
                                       "extracted_images", clock)
     IN  /\ files' = IF saveResult.ok
                     THEN writeFile(files, saveResult.savedPath, saveResult.content)
                     ELSE files
         /\ savedAs' = Append(savedAs, saveResult.savedPath)
  /\ processed' = processed + 1
  /\ UNCHANGED <<callerVars, urlVars, nameVars, browserVars, clock, baseUrl, faviconUrl, phase,
                 imageList, seenUrls, topLogo>>

\* a millisecond passes between two calls
Tick ==
  /\ phase = "save"
  /\ processed < Len(imageList)
  /\ clock < FirstMillisecond + MaxTicks
  /\ clock' = clock + 1
  /\ UNCHANGED <<callerVars, urlVars, nameVars, browserVars, files, savedAs, baseUrl,
                 faviconUrl, phase, imageList, seenUrls, processed, topLogo>>

\* the loop has ended
SaveDone ==
  /\ phase = "save"
  /\ processed = Len(imageList)
  /\ phase' = "saved"
  /\ UNCHANGED <<callerVars, urlVars, sideVars, baseUrl, faviconUrl, imageList, seenUrls,
                 processed, topLogo>>

NextSave == SaveNext \/ Tick \/ SaveDone

SpecSave == InitSave /\ [][NextSave]_vars

(***************************************************************************)
(* Properties of the ranking                                               *)
(***************************************************************************)
\* the site name the page function computes from the page url
PageSiteName == getSiteName(getDomain(baseUrl, baseUrl))

\* the record at position i has the site name in its filename or its url
NamesSite(i) ==
  \/ Includes(toLowerCase(imageList[i].filename), toLowerCase(PageSiteName))
  \/ Includes(toLowerCase(imageList[i].url), toLowerCase(PageSiteName))

IsVector(i) == imageList[i].source \in {"inline-svg", "svg-sprite"}

\* C2: in the list the sort of the harvest leaves, when the site name has more
\* than 2 characters, every record whose filename or url contains the site name
\* comes before every record that contains it in neither, whatever their scores.
C2_SiteNameFirst ==
  (phase = "favicon" /\ Len(PageSiteName) > 2) =>
    \A i, j \in 1..Len(imageList) : (NamesSite(i) /\ ~NamesSite(j)) => i < j

\* a record of the site with score 5 stands before a foreign record with score 50
C2_Witness ==
  /\ phase = "favicon" /\ Len(PageSiteName) > 2
  /\ \E i, j \in 1..Len(imageList) :
       /\ i < j
       /\ NamesSite(i) /\ imageList[i].hasScore /\ imageList[i].logoScore = 5
       /\ ~NamesSite(j) /\ imageList[j].hasScore /\ imageList[j].logoScore = 50

\* the records at i and j are in the same site name partition
SamePartition(i, j) == Len(PageSiteName) > 2 => (NamesSite(i) <=> NamesSite(j))

\* C3: in the sorted list, of two scored records of one site name partition of
\* which exactly one is a vector (inline-svg or svg-sprite), the vector comes
\* first when the scores differ by at most 15, and the other record comes first
\* when it scores more than 15 above the vector.
C3_VectorTieBand ==
  phase = "favicon" =>
    \A v, r \in 1..Len(imageList) :
      (/\ IsVector(v) /\ ~IsVector(r) /\ SamePartition(v, r)
       /\ imageList[v].hasScore /\ imageList[r].hasScore) =>
        /\ Abs(imageList[r].logoScore - imageList[v].logoScore) <= 15 => v < r
        /\ imageList[r].logoScore - imageList[v].logoScore > 15 => r < v

\* raster 60, vector 40, raster 50 in this order
C3_Witness ==
  /\ phase = "favicon"
  /\ Len(imageList) = 3
  /\ ~IsVector(1) /\ imageList[1].logoScore = 60
  /\ IsVector(2) /\ imageList[2].logoScore = 40
  /\ ~IsVector(3) /\ imageList[3].hasScore /\ imageList[3].logoScore = 50
  /\ SamePartition(1, 2) /\ SamePartition(2, 3)

\* the record at i is an inline vector in the header with score 38
IsHeaderVector38(i) ==
  /\ imageList[i].source = "inline-svg" /\ imageList[i].isInHeader
  /\ imageList[i].hasScore /\ imageList[i].logoScore = 38

\* the record at i is a raster badge with score 45 that does not name the site
IsForeignRaster45(i) ==
  /\ ~IsVector(i) /\ ~NamesSite(i)
  /\ imageList[i].hasScore /\ imageList[i].logoScore = 45

\* C4: findTopLogo on a list made of an inline vector logo in the header with
\* score 38 and a raster badge with score 45 that does not name the site (and
\* the favicon record, if one was appended) returns the inline vector, whether
\* or not the vector names the site.
C4_VectorOverBadge ==
  (/\ phase = "done"
   /\ \E v, r \in 1..Len(imageList) : IsHeaderVector38(v) /\ IsForeignRaster45(r)
   /\ \A i \in 1..Len(imageList) :
        IsHeaderVector38(i) \/ IsForeignRaster45(i) \/ imageList[i].isFavicon) =>
    /\ Len(topLogo) = 1
    /\ topLogo[1].source = "inline-svg"

(***************************************************************************)
(* Properties of the harvest and of the selection after it                 *)
(***************************************************************************)
\* C1: the list of a harvest holds at most one record per url, at every point
\* of the harvest and after the favicon append.
C1_OneRecordPerUrl ==
  \A i, j \in 1..Len(imageList) : imageList[i].url = imageList[j].url => i = j

\* the harvest is over, the favicon url was given and the record that has it
\* came from the markup scan: the append found the url present
C1_Witness ==
  /\ phase = "done" /\ faviconUrl # ""
  /\ \E i \in 1..Len(imageList) :
       imageList[i].url = faviconUrl /\ imageList[i].source = "html-source"
  /\ Len(imageList) >= 2

HasPositiveScore(img) == img.hasScore /\ img.logoScore > 0

\* C5: findTopLogo returns null exactly when no record of the list has a defined
\* score above 0, and a record it returns is one of the list with a defined
\* score above 0.
C5_TopLogoIsPositive ==
  phase = "done" =>
    /\ topLogo = <<>> <=> ~\E i \in 1..Len(imageList) : HasPositiveScore(imageList[i])
    /\ topLogo # <<>> =>
         /\ Len(topLogo) = 1
         /\ \E i \in 1..Len(imageList) : imageList[i] = topLogo[1]
         /\ HasPositiveScore(topLogo[1])

\* null is returned on a list with the favicon record, an unscored record and a
\* record with a negative score
C5_Witness ==
  /\ phase = "done" /\ topLogo = <<>>
  /\ \E i \in 1..Len(imageList) : imageList[i].isFavicon
  /\ \E i \in 1..Len(imageList) : ~imageList[i].hasScore
  /\ \E i \in 1..Len(imageList) : imageList[i].hasScore /\ imageList[i].logoScore < 0

\* a css-background record with an inline vector data URI, "logo" in its class,
\* in the header
IsHeaderLogoBackground(img) ==
  /\ img.source = "css-background"
  /\ SubSeq(img.url, 1, 18) = "data:image/svg+xml"
  /\ Includes(toLowerCase(img.className), "logo")
  /\ img.isInHeader

\* C7 as stated: whenever the list holds such a css-background record,
\* findTopLogo returns one.
C7_BackgroundAlwaysReturned ==
  (phase = "done" /\ \E i \in 1..Len(imageList) : IsHeaderLogoBackground(imageList[i])) =>
    Len(topLogo) = 1 /\ IsHeaderLogoBackground(topLogo[1])

\* C7 amended: whenever the list holds such a css-background record with a
\* score above 0, findTopLogo returns such a record, whatever the scores and
\* site name matches of the other records.
C7_PositiveBackgroundReturned ==
  (/\ phase = "done"
   /\ \E i \in 1..Len(imageList) :
        IsHeaderLogoBackground(imageList[i]) /\ HasPositiveScore(imageList[i])) =>
    Len(topLogo) = 1 /\ IsHeaderLogoBackground(topLogo[1])

\* the background is returned over a record of the site that scores higher
C7_Witness ==
  /\ phase = "done" /\ Len(topLogo) = 1 /\ IsHeaderLogoBackground(topLogo[1])
  /\ \E i \in 1..Len(imageList) :
       /\ imageList[i].hasScore /\ imageList[i].logoScore > topLogo[1].logoScore
       /\ Includes(imageList[i].url, "acme")

\* C9: no element makes the harvest abort: page.evaluate never rejects.
C9_HarvestNeverAborts == phase # "failed"

\* the <img> of the happy path
IsHappyPathImg(img) ==
  /\ img.url = "https://acme.com/assets/images/logo-full-color.png"
  /\ img.source = "img-tag" /\ img.className = "site-logo" /\ img.alt = "Acme logo"
  /\ img.hasPosition /\ img.top = 40 /\ img.left = 20

\* C10: on https://acme.com, when the <img> of the happy path is the only image
\* of the page (the favicon record apart), it has a score above 0 and
\* findTopLogo returns it.
C10_HappyPath ==
  (/\ phase = "done" /\ baseUrl = "https://acme.com"
   /\ \E i \in 1..Len(imageList) : IsHappyPathImg(imageList[i])
   /\ \A i \in 1..Len(imageList) : IsHappyPathImg(imageList[i]) \/ imageList[i].isFavicon) =>
    /\ Len(topLogo) = 1 /\ IsHappyPathImg(topLogo[1])
    /\ topLogo[1].hasScore /\ topLogo[1].logoScore > 0

C10_Witness ==
  /\ phase = "done" /\ baseUrl = "https://acme.com"
  /\ Len(imageList) = 1 /\ IsHappyPathImg(imageList[1])
  /\ topLogo = <<imageList[1]>>

(***************************************************************************)
(* Properties of the score                                                 *)
(***************************************************************************)
\* C6: on https://acme.com the record of
\* https://acme.com/partners/stripe-badge.png has a score of at most 0 whatever
\* metadata the channel attached to it, and findTopLogo does not return it.
C6_BadgeNeverPositive ==
  (/\ baseUrl = "https://acme.com"
   /\ phase \in {"select", "done"}
   /\ imageList[1].url = "https://acme.com/partners/stripe-badge.png") =>
    /\ imageList[1].logoScore <= 0
    /\ topLogo = <<>>

\* the record with "logo" added to its class
WithLogoClass(img) ==
  [img EXCEPT !.className = IF @ = "" THEN "logo" ELSE @ \o " logo"]

\* C8: a record whose class does not contain "logo" scores strictly less than
\* the same record with "logo" added to its class.
C8_LogoClassRaisesScore ==
  (phase = "select" /\ ~Includes(toLowerCase(imageList[1].className), "logo")) =>
    scoreImage(WithLogoClass(imageList[1]), baseUrl) > imageList[1].logoScore

\* a record with brand and nav in its class, "logo" in its filename without the
\* site name, more than 800 pixels wide
C8_Witness ==
  /\ phase = "select" /\ baseUrl = "https://acme.com"
  /\ imageList[1].className = "brand nav"
  /\ imageList[1].filename = "logo.png" /\ ~Includes(imageList[1].url, "acme")
  /\ imageList[1].width > 800
  /\ scoreImage(WithLogoClass(imageList[1]), baseUrl) > imageList[1].logoScore

(***************************************************************************)
(* The caller: combinedExtractor.js main and the batch processUrl.  Both   *)
(* hand extractAllImages(url) and extractFaviconColors(url).catch(...) to  *)
(* Promise.allSettled and build the per-url result from the two settled    *)
(* promises.  The status "navigating" and "harvesting" of images are the   *)
(* positions of the pending extractAllImages: inside navigateWithFallback  *)
(* and after it; "launching" is before chromium.launch returned and        *)
(* "closing" is inside the finally block.                                  *)
(***************************************************************************)
\* the waitUntil conditions navigateWithFallback passes to page.goto, in order
WaitTiers == <<"load", "domcontentloaded", "domcontentloaded">>

\* one page.goto(url, { waitUntil }) and whether it threw
Attempt(waitUntil, failed) == [waitUntil |-> waitUntil, failed |-> failed]

Pending(position) == [status |-> position, value |-> <<>>, reason |-> ""]

Fulfilled(value) == [status |-> "fulfilled", value |-> value, reason |-> ""]

Rejected(reason) == [status |-> "rejected", value |-> <<>>, reason |-> reason]

\* the error of the last page.goto, rethrown by extractAllImages
NavigationError == "page.goto: Timeout 30000ms exceeded."

\* the error of chromium.launch
LaunchError == "browserType.launch: Executable doesn't exist"

\* an exception of the page function (scoreImage on a className that is no string)
EvaluateError == "page.evaluate: TypeError: imgData.className.toLowerCase is not a function"

validateUrl(url) == url # "" /\ StartsWith(url, "http") /\ ParseAbsolute(url).ok

MainUrls == {"https://acme.com", "https://ab.io", "acme.com"}

\* what extractFaviconColors resolves with
FaviconColors == [primary |-> "#1a2b3c", secondary |-> "#ffffff", error |-> ""]

\* what extractColorsFromImageUrl resolves with
LogoColors == [primary |-> "#d40000", secondary |-> "#1a2b3c", error |-> ""]

\* { error: error.message } of the .catch on extractFaviconColors
ColorsError == [primary |-> "", secondary |-> "", error |-> "Could not find favicon for this website"]

\* the lists extractAllImages(url) returns: sorted, no favicon record
MainLists(url) ==
  { sortImageList(l, url) :
      l \in {<<>>} \cup { l \in RankLists : Len(l) <= 2 /\ \A i \in 1..Len(l) :
                            l[i] \in {NamedHeaderVector, PartnerBadge, OwnMark, Unscored} } }

\* a combination as soon as one promise is settled
AnySettled(p, q) ==
  p.status \in {"fulfilled", "rejected"} \/ q.status \in {"fulfilled", "rejected"}

\* Promise.allSettled resolves once both promises are settled
AllSettled(p, q) ==
  p.status \in {"fulfilled", "rejected"} /\ q.status \in {"fulfilled", "rejected"}

\* images.status === 'fulfilled' ? images.value : []
imagesDataOf(p) == IF p.status = "fulfilled" THEN p.value ELSE <<>>

\* topLogo ? topLogo.url : null
logoUrlOf(top) == IF top # <<>> THEN top[1].url ELSE ""

\* colorsResult.status === 'fulfilled' && !colorsResult.value.error
ColorsFound(q) == q.status = "fulfilled" /\ q.value.error = ""

colorsOf(c) == [primary |-> c.primary, secondary |-> c.secondary]

InitMain ==
  /\ baseUrl \in MainUrls
  /\ faviconUrl = ""
  /\ phase = "validate"
  /\ imageList = <<>>
  /\ seenUrls = {}
  /\ processed = 0
  /\ topLogo = <<>>
  /\ NoCaller /\ NoUrlCall /\ NoSide

\* validateUrl(url), then the two calls handed to Promise.allSettled
Validate ==
  /\ phase = "validate"
  /\ IF validateUrl(baseUrl)
     THEN /\ phase' = "settling"
          /\ images' = Pending("launching")
          /\ colorsResult' = Pending("pending")
          /\ UNCHANGED result
     ELSE /\ phase' = "reported"
          /\ result' = [result EXCEPT !.status = "error", !.error = "Invalid URL format"]
          /\ UNCHANGED <<images, colorsResult>>
  /\ UNCHANGED <<urlVars, sideVars, baseUrl, faviconUrl, imageList, seenUrls, processed, topLogo,
                 attempts>>

\* browser = await chromium.launch(...), then the context and the page
Launch ==
  /\ images.status = "launching"
  /\ browser' = "open"
  /\ images' = Pending("navigating")
  /\ UNCHANGED <<urlVars, nameVars, saveVars, completion, baseUrl, faviconUrl, phase, imageList, seenUrls,
                 processed, topLogo, attempts, colorsResult, result>>

\* chromium.launch rejects: browser stays undefined, the catch rethrows
LaunchFails ==
  /\ images.status = "launching"
  /\ completion' = Rejected(LaunchError)
  /\ images' = Pending("closing")
  /\ UNCHANGED <<urlVars, nameVars, saveVars, browser, baseUrl, faviconUrl, phase, imageList, seenUrls,
                 processed, topLogo, attempts, colorsResult, result>>

\* navigateWithFallback: the next page.goto succeeds
GotoSucceeds ==
  /\ images.status = "navigating"
  /\ attempts' = Append(attempts, Attempt(WaitTiers[Len(attempts) + 1], FALSE))
  /\ images' = Pending("harvesting")
  /\ UNCHANGED <<urlVars, sideVars, baseUrl, faviconUrl, phase, imageList, seenUrls, processed,
                 topLogo, colorsResult, result>>

\* navigateWithFallback: the next page.goto fails; the catch tries the next
\* condition, the last failure leaves extractAllImages through its catch / throw
GotoFails ==
  /\ images.status = "navigating"
  /\ attempts' = Append(attempts, Attempt(WaitTiers[Len(attempts) + 1], TRUE))
  /\ IF Len(attempts) + 1 = Len(WaitTiers)
     THEN completion' = Rejected(NavigationError) /\ images' = Pending("closing")
     ELSE UNCHANGED <<completion, images>>
  /\ UNCHANGED <<urlVars, nameVars, saveVars, browser, baseUrl, faviconUrl, phase, imageList, seenUrls,
                 processed, topLogo, colorsResult, result>>

\* extractAllImagesWithPage returns its list: the return statement of the try
HarvestReturns ==
  /\ images.status = "harvesting"
  /\ \E list \in MainLists(baseUrl) : completion' = Fulfilled(list)
  /\ images' = Pending("closing")
  /\ UNCHANGED <<urlVars, nameVars, saveVars, browser, baseUrl, faviconUrl, phase, imageList, seenUrls,
                 processed, topLogo, attempts, colorsResult, result>>

\* page.evaluate rejects; the catch of extractAllImages rethrows
HarvestThrows ==
  /\ images.status = "harvesting"
  /\ completion' = Rejected(EvaluateError)
  /\ images' = Pending("closing")
  /\ UNCHANGED <<urlVars, nameVars, saveVars, browser, baseUrl, faviconUrl, phase, imageList, seenUrls,
                 processed, topLogo, attempts, colorsResult, result>>

\* the finally block without its browser.close()
FinallyKeepsBrowser ==
  /\ images.status = "closing"
  /\ images' = completion
  /\ UNCHANGED <<urlVars, nameVars, saveVars, browser, completion, baseUrl, faviconUrl, phase, imageList,
                 seenUrls, processed, topLogo, attempts, colorsResult, result>>

\* finally { if (browser) await browser.close() }, then the promise of
\* extractAllImages settles with the completion of the try block
Finally ==
  /\ images.status = "closing"
  /\ browser' = IF browser = "open" THEN "closed" ELSE browser
  /\ images' = completion
  /\ UNCHANGED <<urlVars, nameVars, saveVars, completion, baseUrl, faviconUrl, phase, imageList, seenUrls,
                 processed, topLogo, attempts, colorsResult, result>>

\* extractFaviconColors resolves, or rejects and the .catch resolves with the error
ColorsSettle ==
  /\ colorsResult.status = "pending"
  /\ \E c \in {FaviconColors, ColorsError} : colorsResult' = Fulfilled(c)
  /\ UNCHANGED <<urlVars, sideVars, baseUrl, faviconUrl, phase, imageList, seenUrls, processed,
                 topLogo, attempts, images, result>>

\* after the await: logo_url, and the colors unless the fallback is needed
Combine ==
  /\ phase = "settling"
  /\ AllSettled(images, colorsResult)
  /\ imageList' = imagesDataOf(images)
  /\ topLogo' = IF Len(imageList') > 0 THEN findTopLogo(imageList', siteNameOfUrl(baseUrl))
                ELSE <<>>
  /\ result' = [result EXCEPT !.logo_url = logoUrlOf(topLogo'),
                              !.colors = IF ColorsFound(colorsResult)
                                         THEN colorsOf(colorsResult.value)
                                         ELSE colorsOf(ColorsError)]
  /\ phase' = IF ColorsFound(colorsResult) \/ logoUrlOf(topLogo') = "" THEN "reported"
              ELSE "fallback"
  /\ UNCHANGED <<urlVars, sideVars, baseUrl, faviconUrl, seenUrls, processed, attempts, images,
                 colorsResult>>

\* extractColorsFromImageUrl(logo_url) resolves, or throws into the inner catch
FallbackSettles ==
  /\ phase = "fallback"
  /\ phase' = "reported"
  /\ \E c \in {LogoColors, ColorsError} : result' = [result EXCEPT !.colors = colorsOf(c)]
  /\ UNCHANGED <<urlVars, sideVars, baseUrl, faviconUrl, imageList, seenUrls, processed, topLogo,
                 attempts, images, colorsResult>>

NextMain ==
  \/ Validate \/ Launch \/ LaunchFails \/ GotoSucceeds \/ GotoFails
  \/ HarvestReturns \/ HarvestThrows \/ Finally
  \/ ColorsSettle \/ Combine \/ FallbackSettles

SpecMain == InitMain /\ [][NextMain]_vars

\* the steps of the pending extractAllImages
ExtractSteps ==
  \/ Launch \/ LaunchFails \/ GotoSucceeds \/ GotoFails
  \/ HarvestThrows \/ HarvestReturns \/ Finally

\* every await of extractAllImages settles (page.goto has a timeout) and the
\* event loop runs the continuation
SpecMainFair == SpecMain /\ WF_vars(ExtractSteps)

(***************************************************************************)
(* utils/urlHelpers.js normalizeUrl(urlString, baseUrl) on its own: one    *)
(* call on a string and a base, which may or may not be a url.             *)
(***************************************************************************)
ValidBases ==
  { "https://acme.com", "https://acme.com/shop/index.html?x=1#top", "http://www.ab.io/a/b/",
    "https://cdn.example.org/static/" }

InvalidBases == { "", "acme.com", "http://" }

RelativePaths ==
  { "", "logo.png", "/img/logo.png", "img/logo.png?v=2", "../logo.svg", "./a/./b/../c.png#f",
    "/sprite.svg#i-logo-fw" }

AbsoluteUrls ==
  { "https://cdn.example.org/img/logo.png", "http://acme.com/a/../b.png?x#y",
    "//cdn.example.org/x.png", "data:image/svg+xml;base64,PHN2Zz4=" }

\* strings the URL constructor rejects with every base
MalformedUrls == { "http://", "https://exa mple.com/logo.png", "https://?logo.png" }

InitUrl ==
  /\ baseUrl \in ValidBases \cup InvalidBases
  /\ urlString \in RelativePaths \cup AbsoluteUrls \cup MalformedUrls
  /\ normalized = [returned |-> FALSE, value |-> ""]
  /\ phase = "call"
  /\ faviconUrl = ""
  /\ imageList = <<>>
  /\ seenUrls = {}
  /\ processed = 0
  /\ topLogo = <<>>
  /\ NoCaller /\ NoSide

\* try { return new URL(urlString, baseUrl).href } catch (e) { return urlString }
NormalizeCall ==
  /\ phase = "call"
  /\ phase' = "returned"
  /\ normalized' = [returned |-> TRUE, value |-> normalizeUrl(urlString, baseUrl)]
  /\ UNCHANGED <<callerVars, sideVars, urlString, baseUrl, faviconUrl, imageList, seenUrls, processed,
                 topLogo>>

NextUrl == NormalizeCall

SpecUrl == InitUrl /\ [][NextUrl]_vars

(***************************************************************************)
(* The site name: computed once inside page.evaluate from the base url and *)
(* once more by findTopLogo from the url its caller passes                 *)
(***************************************************************************)
SiteTlds == {"com", "hu"}

SiteMainLabels == {"acme", "ab", "123", "x"}

SiteSubdomains == {<<>>, <<"shop">>, <<"cdn">>, <<"invest">>, <<"www2">>, <<"a", "b">>}

SiteHosts ==
  { www \o JoinWith(sub \o <<main, tld>>, ".") :
      www \in {"", "www."}, sub \in SiteSubdomains, main \in SiteMainLabels, tld \in SiteTlds }
  \cup {"localhost", "www.com"}

\* the urls main is called with; the last one has no scheme and does not parse
SiteUrls == { "https://" \o host \o "/about" : host \in SiteHosts } \cup {"acme.com"}

InitName ==
  /\ baseUrl \in SiteUrls
  /\ faviconUrl = ""
  /\ phase = "evaluate"
  /\ imageList = <<>>
  /\ seenUrls = {}
  /\ processed = 0
  /\ topLogo = <<>>
  /\ NoCaller /\ NoUrlCall /\ NoSide

\* const siteDomain = getDomain(baseUrl); const siteName = getSiteName(siteDomain)
HarvestName ==
  /\ phase = "evaluate"
  /\ phase' = "select"
  /\ harvestName' = getSiteName(getDomain(baseUrl, baseUrl))
  /\ UNCHANGED <<callerVars, urlVars, browserVars, saveVars, selectName, baseUrl, faviconUrl, imageList, seenUrls,
                 processed, topLogo>>

\* const siteName = getSiteName(url) of findTopLogo
SelectName ==
  /\ phase = "select"
  /\ phase' = "named"
  /\ selectName' = siteNameOfUrl(baseUrl)
  /\ UNCHANGED <<callerVars, urlVars, browserVars, saveVars, harvestName, baseUrl, faviconUrl, imageList, seenUrls,
                 processed, topLogo>>

NextName == HarvestName \/ SelectName

SpecName == InitName /\ [][NextName]_vars

(***************************************************************************)
(* The favicon record in the returned list and in the caller's result      *)
(***************************************************************************)
\* utils/faviconHelpers.js getFavicon, the conventional root path: "" for null
faviconFallback(url) ==
  IF ParseAbsolute(url).ok
  THEN ParseAbsolute(url).scheme \o "://" \o ParseAbsolute(url).hostname \o "/favicon.ico"
  ELSE ""

\* the favicon of the page: the one the caller supplied, else the conventional one
SiteFavicon == IF faviconUrl # "" THEN faviconUrl ELSE faviconFallback(baseUrl)

\* extractAllImagesWithPage has returned images
Returned == phase \in {"select", "done", "tested"}

\* C11: the list extractAllImages returns holds a record for the favicon of the
\* site, either a record of a channel with the favicon url or exactly one
\* appended record with isFavicon = true and score 0, whether or not the caller
\* supplied a favicon url.
C11_FaviconAlwaysListed ==
  Returned =>
    \/ \E i \in 1..Len(imageList) : ~imageList[i].isFavicon /\ imageList[i].url = SiteFavicon
    \/ /\ Cardinality({i \in 1..Len(imageList) : imageList[i].isFavicon}) = 1
       /\ \A i \in 1..Len(imageList) :
            imageList[i].isFavicon => imageList[i].hasScore /\ imageList[i].logoScore = 0

\* C12: when findTopLogo returns null the caller reports the favicon candidate:
\* the reported logo is null only if the list holds no favicon candidate.
C12_FaviconSubstituted ==
  (phase = "done" /\ topLogo = <<>>) =>
    ~\E i \in 1..Len(imageList) : imageList[i].isFavicon \/ imageList[i].url = SiteFavicon

(***************************************************************************)
(* Properties of the caller                                                *)
(***************************************************************************)
\* the two promises have been combined
Combined == phase \in {"fallback", "reported"} /\ images.status # "none"

\* the logo the list of the settled images promise gives, whatever the colors
LogoOfImages ==
  IF images.status = "fulfilled" /\ Len(images.value) > 0
  THEN logoUrlOf(findTopLogo(images.value, siteNameOfUrl(baseUrl)))
  ELSE ""

\* C13: the result is built only after both extractions have settled; the
\* reported logo is the one the logo extraction's outcome gives whether the
\* color extraction succeeded or failed; the colors of a successful color
\* extraction are reported whether the logo extraction succeeded or failed; and
\* no failure of either leaves the combining step as an error.
C13_IndependentOutcomes ==
  Combined =>
    /\ images.status \in {"fulfilled", "rejected"}
    /\ colorsResult.status \in {"fulfilled", "rejected"}
    /\ result.logo_url = LogoOfImages
    /\ ColorsFound(colorsResult) => result.colors = colorsOf(colorsResult.value)
    /\ result.status = "success" /\ result.error = ""

\* the logo extraction failed, the colors of the favicon are reported
C13_Witness ==
  /\ phase = "reported" /\ images.status = "rejected"
  /\ result.colors = colorsOf(FaviconColors) /\ result.logo_url = ""

\* every page.goto of navigateWithFallback failed
NavigationFailed ==
  Len(attempts) = Len(WaitTiers) /\ \A i \in 1..Len(attempts) : attempts[i].failed

C15_TierOrder ==
  /\ Len(attempts) <= 3
  /\ \A i \in 1..Len(attempts) :
       /\ attempts[i].waitUntil = <<"networkidle", "load", "domcontentloaded">>[i]
       /\ i < Len(attempts) => attempts[i].failed
  /\ (images.status = "rejected" /\ images.reason = NavigationError) =>
       /\ attempts[Len(attempts)].waitUntil = "domcontentloaded"
       /\ attempts[Len(attempts)].failed

BeforeInlineStyle == {"img-tag", "inline-svg", "svg-sprite", "css-background"}

IsDataRecord(img) == StartsWith(img.source, "data-attribute")

\* the sort has run
SortHasRun == phase \in {"favicon", "select", "done", "tested"}

\* C18 as stated: the records of the data attribute scan have no score, are
\* never returned by findTopLogo and, in the ranked list, never precede a scored
\* record of the same site-identity partition.
C18_UnscoredNeverAhead ==
  /\ \A i \in 1..Len(imageList) : IsDataRecord(imageList[i]) => ~imageList[i].hasScore
  /\ (phase = "done" /\ topLogo # <<>>) => ~IsDataRecord(topLogo[1])
  /\ SortHasRun =>
       \A i, j \in 1..Len(imageList) :
         (i < j /\ IsDataRecord(imageList[i]) /\ imageList[j].hasScore) => ~SamePartition(i, j)

\* C18 amended: the records of the data attribute scan have no score, are never
\* returned by findTopLogo and, in the ranked list, never precede a scored
\* record of the same site-identity partition that the sort placed; the favicon
\* record, appended with score 0 after the sort, follows every record.
C18_UnscoredBehindSorted ==
  /\ \A i \in 1..Len(imageList) : IsDataRecord(imageList[i]) => ~imageList[i].hasScore
  /\ (phase = "done" /\ topLogo # <<>>) => ~IsDataRecord(topLogo[1])
  /\ SortHasRun =>
       \A i, j \in 1..Len(imageList) :
         (i < j /\ IsDataRecord(imageList[i]) /\ imageList[j].hasScore
          /\ ~imageList[j].isFavicon) => ~SamePartition(i, j)
  /\ SortHasRun =>
       \A i \in 1..Len(imageList) : imageList[i].isFavicon => i = Len(imageList)

\* findTopLogo passed over a data attribute record of the site's partition that
\* the sort placed behind a scored record and ahead of the favicon record
C18_Witness ==
  /\ phase = "done" /\ topLogo # <<>>
  /\ \E i, j, k \in 1..Len(imageList) :
       /\ i < j /\ j < k
       /\ imageList[i].hasScore /\ IsDataRecord(imageList[j]) /\ imageList[k].isFavicon
       /\ SamePartition(i, j) /\ SamePartition(j, k)

OriginOf(base) == ParseAbsolute(base).scheme \o "://" \o ParseAbsolute(base).hostname

\* C20: normalizeUrl returns for every input string; for a relative path and a
\* valid base it returns an absolute url whose origin is the origin of the base;
\* for an input the constructor rejects it returns the input unchanged.
C20_NormalizeNeverThrows ==
  phase = "returned" =>
    /\ normalized.returned
    /\ (urlString \in RelativePaths /\ baseUrl \in ValidBases) =>
         /\ StartsWith(normalized.value, OriginOf(baseUrl) \o "/")
         /\ ParseAbsolute(normalized.value).ok
         /\ OriginOf(normalized.value) = OriginOf(baseUrl)
    /\ (urlString \in MalformedUrls \/ baseUrl \in InvalidBases) =>
         normalized.value = urlString

\* a path with dot segments is resolved in the directory of the base
C20_Witness ==
  /\ phase = "returned"
  /\ baseUrl = "https://acme.com/shop/index.html?x=1#top" /\ urlString = "../logo.svg"
  /\ normalized.value = "https://acme.com/logo.svg"

(***************************************************************************)
(* The site name of a hostname                                             *)
(***************************************************************************)
\* the labels of the page's hostname after the leading "www." is stripped
HostLabels == SplitOn(StripWww(toLowerCase(ParseAbsolute(baseUrl).hostname)), ".")

\* the label next to the TLD, and the one before it
NextToTld == HostLabels[Len(HostLabels) - 1]

BeforeNextToTld == HostLabels[Len(HostLabels) - 2]

C22_OneCandidatePerImg ==
  [][phase = "img" /\ phase' = "img" => Len(imageList') <= Len(imageList) + 1]_vars

(***************************************************************************)
(* The parent element in the score                                         *)
(***************************************************************************)
\* the record found under a parent element with this class and this id
WithParent(img, parentClassName, parentId) ==
  [img EXCEPT !.parentClassName = parentClassName, !.parentId = parentId]

\* C23: a record whose parent has a token in its class and in its id scores the
\* same as the same record whose parent has the token in its class only, and
\* the same as the one whose parent has it in its id only.
C23_ParentBonusIsFlat ==
  phase = "select" =>
    /\ scoreImage(WithParent(imageList[1], "header-inner", "site-header"), baseUrl)
         = scoreImage(WithParent(imageList[1], "header-inner", ""), baseUrl)
    /\ scoreImage(WithParent(imageList[1], "header-inner", "site-header"), baseUrl)
         = scoreImage(WithParent(imageList[1], "", "site-header"), baseUrl)

(***************************************************************************)
(* A third-party service named in the alt text                             *)
(***************************************************************************)
\* the alt text contains the name of a service that is not the site's own name
AltNamesThirdParty(img) ==
  \E service \in thirdPartyServices :
    /\ Includes(toLowerCase(img.alt), service)
    /\ service # toLowerCase(PageSiteName)

\* C24: a record whose alt text contains the name of a third-party service
\* that is not the site's own scores strictly less than the same record
\* without alt text, whatever its filename, url and path are.
C24_ThirdPartyAltLowers ==
  (phase = "select" /\ AltNamesThirdParty(imageList[1])) =>
    imageList[1].logoScore < scoreImage([imageList[1] EXCEPT !.alt = ""], baseUrl)

(***************************************************************************)
(* The secondary keywords in the filename                                  *)
(***************************************************************************)
SecondaryKeywords == {"brand", "header", "site", "company"}

\* the record found at this filename of the directory /img/ of a foreign host
Renamed(img, filename) ==
  [img EXCEPT !.url = "https://cdn.example.org/img/" \o filename,
              !.filename = filename,
              !.pathname = "/img/" \o filename]

\* C25: for each secondary keyword, the record whose filename contains the
\* keyword scores strictly more than the same record whose filename lacks it.
C25_SecondaryKeywordRaises ==
  phase = "select" =>
    \A keyword \in SecondaryKeywords :
      scoreImage(Renamed(imageList[1], keyword \o "-main.png"), baseUrl)
        > scoreImage(Renamed(imageList[1], "main.png"), baseUrl)

(***************************************************************************)
(* The seen-set and the list                                               *)
(***************************************************************************)
\* the list has a record of this url
HasRecord(list, url) == \E i \in 1..Len(list) : list[i].url = url

\* C26: the data-attribute channel accepts every url it discovers; after its
\* visit of an attribute the list has a record of the url found in it, also
\* when an earlier channel discovered the url and rejected it.
C26_DiscoveredUrlHasRecord ==
  [][\A a \in DataAttributes :
       (/\ phase = "data" /\ phase' = "data"
        /\ IsImageUrlMatch(a.found)
        /\ imageList' = dataAttribute(Now, a.attrName, a.found, baseUrl).imageList
        /\ seenUrls' = dataAttribute(Now, a.attrName, a.found, baseUrl).seenUrls)
       => HasRecord(imageList', normalizeUrl(a.found, baseUrl))]_vars

(***************************************************************************)
(* The comparator of the sort as an order                                  *)
(***************************************************************************)
\* the comparator's results on the records of the list, by their positions
Compared ==
  LET n == Len(imageList)
      row(i) == SubSeq([j \in 1..n |-> compareImages(imageList[i], imageList[j], PageSiteName)],
                       1, n)
  IN  SubSeq([i \in 1..n |-> row(i)], 1, n)

\* C27: on the records of every list the comparator is a strict weak order:
\* a goes before b exactly when b goes after a, going before is transitive,
\* and so is being tied; and in the list the sort leaves, no record goes
\* after one the comparator puts it before, whatever order they were found in.
C27_StrictWeakOrder ==
  LET compare == Compared
  IN  /\ \A i, j \in 1..Len(imageList) : compare[i][j] < 0 <=> compare[j][i] > 0
      /\ \A i, j, k \in 1..Len(imageList) :
           /\ (compare[i][j] < 0 /\ compare[j][k] < 0) => compare[i][k] < 0
           /\ (compare[i][j] = 0 /\ compare[j][k] = 0) => compare[i][k] = 0
      /\ phase = "favicon" =>
           \A i, j \in 1..Len(imageList) : i < j => compare[i][j] <= 0

\* sorted: a raster more than 15 points above a vector, the vector, and a
\* raster less than 15 points above the vector
C27_Witness ==
  /\ phase = "favicon"
  /\ imageList = <<Hero, HeaderVector, PartnerBadge>>
  /\ Compared[1][2] < 0 /\ Compared[2][3] < 0 /\ Compared[1][3] < 0

(***************************************************************************)
(* The list during discovery                                               *)
(***************************************************************************)
DiscoveryPhases == {"img", "svg", "use", "styled", "markup", "spriteMarkup", "data"}

\* C28: while the channels run, every step leaves the records that were in
\* the list where they were: the <use> channel's replace rule never fires,
\* the list only grows.
C28_ListOnlyGrows ==
  [][(phase \in DiscoveryPhases /\ phase' \in DiscoveryPhases) =>
       /\ Len(imageList') >= Len(imageList)
       /\ SubSeq(imageList', 1, Len(imageList)) = imageList]_vars

\* the <use> loop is running and has pushed the record of a sprite with a
\* logo fragment behind the record of another channel
C28_Witness ==
  /\ phase = "use"
  /\ Len(imageList) >= 2
  /\ imageList[Len(imageList)].source = "svg-sprite"
  /\ imageList[Len(imageList)].url = "https://acme.com/sprite.svg"
  /\ imageList[1].source = "img-tag"
  /\ processed = MaxElements

(***************************************************************************)
(* The browser of extractAllImages                                         *)
(***************************************************************************)
\* the promise of extractAllImages has settled: the caller has the list or the error
Settled(promise) == promise.status \in {"fulfilled", "rejected"}

\* C29: when extractAllImages has returned or thrown to its caller the browser
\* is not open, and a browser that is open is eventually closed.
C29_BrowserClosed ==
  /\ [](Settled(images) => browser # "open")
  /\ (browser = "open") ~> (browser = "closed")

\* the navigation failed on all tiers, the error reached the caller, the
\* browser is closed
C29_Witness ==
  /\ images = Rejected(NavigationError)
  /\ Len(attempts) = Len(WaitTiers)
  /\ browser = "closed"

(***************************************************************************)
(* The files of the base64 candidates                                      *)
(***************************************************************************)
\* C30: the base64 candidates of one run that were saved have savedAsFile
\* paths that differ from one another, and every file written is still there
\* with the content of its candidate.
C30_DistinctSavedFiles ==
  /\ \A i, j \in 1..Len(savedAs) :
       (i # j /\ savedAs[i] # "" /\ savedAs[j] # "") => savedAs[i] # savedAs[j]
  /\ \A i \in 1..Len(savedAs) :
       savedAs[i] # "" =>
         [path |-> savedAs[i], content |-> base64Match(imageList[i].url).base64Content]
           \in files
====
